---------------------------- MODULE Spec2Model ----------------------------
(***************************************************************************)
(* Model of smemsh/taskwtools, src/task.py: the task resolver (_taskget),  *)
(* the FQL deriver (__taskfql, _timewtags), the failure-sentinel uuids and *)
(* the current-task tracker (_tasknow).                                    *)
(*                                                                         *)
(* A python str is modelled as a sequence of one-character strings, so     *)
(* that replace, split, join, substring and the character-class tests of   *)
(* the source are computed rather than assumed.  python's None is the      *)
(* one-element sequence None, which is no character sequence.              *)
(***************************************************************************)
EXTENDS Integers, Sequences, FiniteSets, TLC

VARIABLES
    \* ---- one process resolving tasks: external stores and command line
    store,      \* the task store: the tasks in the order the store lists them
    ledger,     \* the time ledger: the intervals timew.export() returns
    invname,    \* the verb the process was invoked as
    cli,        \* the flags given on the command line, a subset of CliFlags
    argv,       \* the words of the command line after the flags
    \* ---- _taskget
    pc,         \* "enter" | "loop" | "end" | "returned" | "exit"
    taskargs,   \* positional tokens left after the +tag/-tag split
    tagfilters, \* dict tags__word / tags__noword
    ti,         \* index into taskargs of the next loop iteration
    ran,        \* src/task.py:606
    tasks,      \* src/task.py:607, as the set of store indices
    firstmatch, \* src/task.py:608
    queries,    \* every taskw.filter() call issued so far, in order
    tried,      \* the indices of taskargs whose loop body has run
    items,      \* the value _taskget returned
    getcache,   \* src/task.py:979
    nowcache,   \* src/task.py:980
    \* ---- process result
    stdout,     \* what was printed to standard output, in order
    exit,       \* "running" | "EXIT_SUCCESS" | "EXIT_FAILURE" | "exception"
    \* ---- FQL deriver (verbs taskfql / timewtags applied to one task)
    ftask,      \* the task handed to __taskfql / _timewtags (a dict)
    fpc,        \* "in" | "fql" | "tags"
    fqlout,     \* value returned by __taskfql(ftask)
    tagsout,    \* value returned by _timewtags(ftask)
    \* ---- on-modify hook (on_modify_timew), one process per invocation
    old,        \* the task before the modification (a dict)
    new,        \* the task after the modification (a dict)
    ops,        \* the timew calls that change the ledger, as issued
    run,        \* the number of the invocation, 0 before the first
    before      \* before[r]: the ledger when invocation r began

fvars == <<ftask, fpc, fqlout, tagsout>>
gvars == <<store, ledger, invname, cli, argv, pc, taskargs, tagfilters, ti, ran,
           tasks, firstmatch, queries, tried, items, getcache, nowcache, stdout,
           exit>>
svars == <<old, new, ops, run, before>>
vars == <<gvars, fvars, svars>>

-----------------------------------------------------------------------------
(* Bounds of the model *)

MaxPrjLen == 3      \* longest project string enumerated
MaxLabelLen == 1    \* longest label string enumerated
MaxTags == 2        \* most tags on an enumerated task

-----------------------------------------------------------------------------
(* python values *)

None == <<"None">>

\* python truthiness of a str / list / None: None, '' and [] are falsy
Falsy(x) == x = None \/ x = <<>>

\* all character sequences over alphabet A of length 1..n
StrUpTo(A, n) == UNION {[1..k -> A] : k \in 1..n}

\* src/task.py:68-70
getitem(obj, member) == IF member \in DOMAIN obj THEN obj[member] ELSE None

\* str.replace(c, d) for one-character c and d
replace(s, c, d) == [i \in 1..Len(s) |-> IF s[i] = c THEN d ELSE s[i]]

\* str.split(sep): 'a//b' -> ['a', '', 'b'], '' -> ['']
RECURSIVE split(_, _)
split(s, sep) ==
    IF \A i \in 1..Len(s) : s[i] # sep THEN <<s>>
    ELSE LET i == CHOOSE j \in 1..Len(s) :
                      s[j] = sep /\ \A k \in 1..(j-1) : s[k] # sep
         IN  <<SubSeq(s, 1, i-1)>> \o split(SubSeq(s, i+1, Len(s)), sep)

\* sep.join(segs)
RECURSIVE join(_, _)
join(segs, sep) ==
    IF Len(segs) = 0 THEN <<>>
    ELSE IF Len(segs) = 1 THEN segs[1]
    ELSE segs[1] \o <<sep>> \o join(Tail(segs), sep)

-----------------------------------------------------------------------------
(* Character classes and identifier grammars (string module, int(), UUID()) *)

digits == {"0", "1", "2", "3", "4", "5", "6", "7", "8", "9"}
lowercase == {"a", "b", "c", "d", "e", "f", "g", "h", "i", "j", "k", "l", "m",
              "n", "o", "p", "q", "r", "s", "t", "u", "v", "w", "x", "y", "z"}
hexdigits == digits \cup {"a", "b", "c", "d", "e", "f"}
                    \cup {"A", "B", "C", "D", "E", "F"}

\* set(s).issubset(chars)
issubset(s, chars) == \A i \in 1..Len(s) : s[i] \in chars

HexVal(c) ==
    CASE c = "0" -> 0 [] c = "1" -> 1 [] c = "2" -> 2 [] c = "3" -> 3
      [] c = "4" -> 4 [] c = "5" -> 5 [] c = "6" -> 6 [] c = "7" -> 7
      [] c = "8" -> 8 [] c = "9" -> 9
      [] c \in {"a", "A"} -> 10 [] c \in {"b", "B"} -> 11
      [] c \in {"c", "C"} -> 12 [] c \in {"d", "D"} -> 13
      [] c \in {"e", "E"} -> 14 [] c \in {"f", "F"} -> 15

HexChar(v) == <<"0", "1", "2", "3", "4", "5", "6", "7",
                "8", "9", "a", "b", "c", "d", "e", "f">>[v + 1]

\* int(taskarg) succeeds (tokens here carry no sign, blank or underscore)
IsInt(s) == Len(s) > 0 /\ issubset(s, digits)

\* the value of int(s)
RECURSIVE IntOf(_)
IntOf(s) ==
    IF Len(s) = 0 THEN 0
    ELSE 10 * IntOf(SubSeq(s, 1, Len(s) - 1)) + HexVal(s[Len(s)])

\* str(n) for 0 <= n <= 99
StrOfInt(n) ==
    IF n < 10 THEN <<HexChar(n)>> ELSE <<HexChar(n \div 10), HexChar(n % 10)>>

\* s.replace('-', '')
RECURSIVE nohyphens(_)
nohyphens(s) ==
    IF Len(s) = 0 THEN <<>>
    ELSE (IF Head(s) = "-" THEN <<>> ELSE <<Head(s)>>) \o nohyphens(Tail(s))

\* UUID(taskarg) succeeds: 32 hex digits once the hyphens are removed
IsUuid(s) == Len(nohyphens(s)) = 32 /\ issubset(nohyphens(s), hexdigits)

\* the 128-bit value of UUID(s), as the set of its set bits (bit 0 lowest)
UuidBits(s) ==
    LET h == nohyphens(s)
    IN  {b \in 0..127 : (HexVal(h[32 - (b \div 4)]) \div (2 ^ (b % 4))) % 2 = 1}

\* str(UUID(int=...)) of the value with exactly the bits in bs set
StrOfUuidBits(bs) ==
    LET nib(k) == (IF 4 * k \in bs THEN 1 ELSE 0)
                  + (IF 4 * k + 1 \in bs THEN 2 ELSE 0)
                  + (IF 4 * k + 2 \in bs THEN 4 ELSE 0)
                  + (IF 4 * k + 3 \in bs THEN 8 ELSE 0)
        h == [i \in 1..32 |-> HexChar(nib(32 - i))]
    IN  SubSeq(h, 1, 8) \o <<"-">> \o SubSeq(h, 9, 12) \o <<"-">>
        \o SubSeq(h, 13, 16) \o <<"-">> \o SubSeq(h, 17, 20) \o <<"-">>
        \o SubSeq(h, 21, 32)

\* str(UUID(s)): the canonical lower-case hyphenated form
StrOfUuid(s) == StrOfUuidBits(UuidBits(s))

IsPrefix(p, s) == Len(p) <= Len(s) /\ SubSeq(s, 1, Len(p)) = p
IsSubstr(p, s) ==
    \E k \in 0..(Len(s) - Len(p)) : SubSeq(s, k + 1, k + Len(p)) = p

-----------------------------------------------------------------------------
(* Failure-sentinel uuids *)

\* src/task.py:982
FAILBASE == 124

\* src/task.py:983-984, enum('FailMask', failures, start=FAILBASE)
failures == <<"NONE", "WRONG", "MULTI">>
FailMask(name) ==
    FAILBASE + (CHOOSE k \in 1..Len(failures) : failures[k] = name) - 1

\* failuuid with the mask names all given the value of the first
failuuid_samemask(maskenum) == StrOfUuidBits(0..(FAILBASE - 1))

\* src/task.py:130-131, as the string of uuid(int=(1 << mask) - 1)
failuuid(maskenum) == StrOfUuidBits(0..(FailMask(maskenum) - 1))

\* src/task.py:985
FAILUUID == failuuid(failures[1])

\* src/task.py:133-136
isfailuuid(arg) == UuidBits(FAILUUID) \subseteq UuidBits(arg)

\* src/task.py:138-143
dummy_match(n) ==
    IF n = 0 THEN failuuid("NONE")
    ELSE IF n > 1 THEN failuuid("MULTI")
    ELSE failuuid("WRONG")

\* src/task.py:145-146
dummy_task(n) == [idx |-> 0, id |-> 0, uuid |-> dummy_match(n)]

-----------------------------------------------------------------------------
(* FQL deriver *)

\* __taskfql with the '/' between project and label left out
__taskfql_nosep(task, labelonly) ==
    LET prj == getitem(task, "project")
        label == getitem(task, "label")
    IN  IF Falsy(prj) \/ Falsy(label) THEN None
        ELSE IF labelonly THEN label
        ELSE replace(prj, ".", "/") \o label

\* src/task.py:174-179
__taskfql(task, labelonly) ==
    LET prj == getitem(task, "project")
        label == getitem(task, "label")
    IN  IF Falsy(prj) \/ Falsy(label) THEN None
        ELSE IF labelonly THEN label
        ELSE replace(prj, ".", "/") \o <<"/">> \o label

\* the ladder entry with the '/' appended to the last entry as well
LadderEntry_allslash(fqlsegs, i) ==
    join(SubSeq(fqlsegs, 1, i), "/") \o <<"/">>

\* src/task.py:218-219, the ladder entry appended for i in range(1, nsegs+1)
LadderEntry(fqlsegs, i) ==
    join(SubSeq(fqlsegs, 1, i), "/")
        \o (IF i < Len(fqlsegs) THEN <<"/">> ELSE <<>>)

\* _timewtags with the loop run over range(1, nsegs): the full FQL is lost
_timewtags_short(task) ==
    LET fql == __taskfql(task, FALSE)
        fqlsegs == IF ~Falsy(fql) THEN split(fql, "/") ELSE <<>>
        nsegs == Len(fqlsegs)
        ladder == [i \in 1..(nsegs - 1) |-> LadderEntry(fqlsegs, i)]
        tasktags == getitem(task, "tags")
    IN  ladder \o (IF ~Falsy(tasktags)
                   THEN [j \in 1..Len(tasktags) |-> <<"+">> \o tasktags[j]]
                   ELSE <<>>)

\* src/task.py:205-225 (task a dict or a tasklib Task)
_timewtags(task) ==
    LET fql == __taskfql(task, FALSE)
        fqlsegs == IF ~Falsy(fql) THEN split(fql, "/") ELSE <<>>
        nsegs == Len(fqlsegs)
        ladder == [i \in 1..nsegs |-> LadderEntry(fqlsegs, i)]
        tasktags == getitem(task, "tags")
    IN  ladder \o (IF ~Falsy(tasktags)
                   THEN [j \in 1..Len(tasktags) |-> <<"+">> \o tasktags[j]]
                   ELSE <<>>)

-----------------------------------------------------------------------------
(* Command line and keyword arguments of _taskget *)

\* the flags of src/task.py:705-710 that can be given; -a/--all stores True
\* into matchall, whose default is True already
CliFlags == {"o", "z", "x", "n", "i"}

EmptyDict == [k \in {} |-> TRUE]

\* src/task.py:704-712, the Namespace parse_known_args returns: every flag
\* has its default, except idonly (default=SUPPRESS), present only if given
ArgsNS ==
    [k \in {"matchall", "matchone", "zero", "exact", "idstrings"}
           \cup (IF "n" \in cli THEN {"idonly"} ELSE {}) |->
        CASE k = "matchall" -> TRUE
          [] k = "matchone" -> "o" \in cli
          [] k = "zero" -> "z" \in cli
          [] k = "exact" -> "x" \in cli
          [] k = "idstrings" -> "i" \in cli
          [] k = "idonly" -> TRUE]

\* the keyword arguments each verb hands down to _taskget
\* (src/task.py:567 and 581 for taskid/taskuuid; none for taskget, taskfql)
Kwargs ==
    IF invname \in {"taskid", "taskuuid"}
    THEN [k \in {"idonly", "matchall", "abort"} |-> k = "idonly"]
    ELSE EmptyDict

\* src/task.py:671-683: the first argset that has the name decides
fromargs(name, default, argsets) ==
    IF \E k \in 1..Len(argsets) : name \in DOMAIN argsets[k]
    THEN LET k == CHOOSE j \in 1..Len(argsets) :
                      /\ name \in DOMAIN argsets[j]
                      /\ \A m \in 1..(j - 1) : name \notin DOMAIN argsets[m]
         IN  argsets[k][name]
    ELSE default

\* src/task.py:125 and 711-712: args.taskargs, what parse_known_args makes
\* of the words.  A word that starts with '-' (and is no "--", no "-" and
\* no negative number) ahead of the first "--" is an unknown option: it
\* goes to the leftovers and is skipped.  The positional argument takes the
\* first run of other words, less the first "--"; the words after an
\* unknown option that follows the run are leftovers too.
parse_known_args(words) ==
    LET dd == <<"-", "-">>
        After(j) == \E m \in 1..(j - 1) : words[m] = dd
        Opt(j) == /\ ~After(j) /\ words[j] # dd
                  /\ Len(words[j]) > 1 /\ words[j][1] = "-"
                  /\ \E m \in 2..Len(words[j]) : words[j][m] \notin digits
        n == Len(words)
        first == IF \A j \in 1..n : Opt(j) THEN n + 1
                 ELSE CHOOSE j \in 1..n :
                          ~Opt(j) /\ \A m \in 1..(j - 1) : Opt(m)
        last == CHOOSE k \in (first - 1)..n :
                    /\ \A m \in first..k : ~Opt(m)
                    /\ k < n => Opt(k + 1)
        dds == {j \in first..last : words[j] = dd}
    IN  IF dds = {} THEN SubSeq(words, first, last)
        ELSE LET d == CHOOSE j \in dds : \A m \in dds : j <= m
             IN  SubSeq(words, first, d - 1) \o SubSeq(words, d + 1, last)

\* the words that reach _taskget as args.taskargs
Taskargs == parse_known_args(argv)

\* src/task.py:714-716
multi ==
    IF fromargs("matchone", FALSE, <<ArgsNS, Kwargs>>) THEN FALSE
    ELSE fromargs("matchall", TRUE, <<ArgsNS, Kwargs>>)

\* src/task.py:717-719
idonly ==
    IF Taskargs = <<>> THEN TRUE ELSE fromargs("idonly", FALSE, <<ArgsNS, Kwargs>>)

\* src/task.py:722-723; blocked is None | True | False
held == fromargs("held", FALSE, <<Kwargs>>)
blocked ==
    IF "blocked" \in DOMAIN Kwargs
    THEN (IF Kwargs["blocked"] THEN "True" ELSE "False")
    ELSE "None"

\* src/task.py:725-727
zero == fromargs("zero", FALSE, <<ArgsNS>>)
exact == fromargs("exact", FALSE, <<Kwargs, ArgsNS>>)
idstrings == fromargs("idstrings", FALSE, <<ArgsNS>>)

\* src/task.py:729-736: tokens starting with c, with the c removed
RECURSIVE TagArgs(_, _)
TagArgs(args, c) ==
    IF Len(args) = 0 THEN <<>>
    ELSE (IF Head(args)[1] = c THEN <<Tail(Head(args))>> ELSE <<>>)
         \o TagArgs(Tail(args), c)

\* src/task.py:732-736: the tokens that start with neither '+' nor '-'
RECURSIVE PlainArgs(_)
PlainArgs(args) ==
    IF Len(args) = 0 THEN <<>>
    ELSE (IF Head(args)[1] \in {"+", "-"} THEN <<>> ELSE <<Head(args)>>)
         \o PlainArgs(Tail(args))

\* src/task.py:738-739
TagFilters(args) ==
    LET tags_yes == TagArgs(args, "+")
        tags_no == TagArgs(args, "-")
    IN  [k \in (IF tags_yes # <<>> THEN {"tags__word"} ELSE {})
               \cup (IF tags_no # <<>> THEN {"tags__noword"} ELSE {}) |->
            IF k = "tags__word" THEN join(tags_yes, ",")
            ELSE join(tags_no, ",")]

-----------------------------------------------------------------------------
(* The task store behind taskw.filter() *)

\* does the store's task t satisfy the filter?
TaskMatches(t, filterwords, filterdict) ==
    /\ \A k \in DOMAIN filterdict :
         LET v == filterdict[k] IN
         CASE k = "id" -> t.id = v
           [] k = "uuid" -> IsPrefix(v, t.uuid)
           [] k = "project__is" -> t.project = v
           [] k = "project__has" -> t.project # None /\ IsSubstr(v, t.project)
           [] k = "label__is" -> t.label = v
           [] k = "label__has" -> t.label # None /\ IsSubstr(v, t.label)
           [] k = "description__has" -> IsSubstr(v, t.description)
           [] k = "tags__word" ->
                \A j \in 1..Len(split(v, ",")) : split(v, ",")[j] \in t.tags
           [] k = "tags__noword" ->
                \A j \in 1..Len(split(v, ",")) : split(v, ",")[j] \notin t.tags
           [] k = "wait__after" -> t.waiting
    /\ "+BLOCKED" \in filterwords => t.blocked
    /\ "-BLOCKED" \in filterwords => ~t.blocked

\* the numbers of S in increasing order
RECURSIVE Ascending(_)
Ascending(S) ==
    IF S = {} THEN <<>>
    ELSE LET m == CHOOSE x \in S : \A y \in S : x <= y
         IN  <<m>> \o Ascending(S \ {m})

\* dict.update
DictUpdate(d, e) ==
    [k \in DOMAIN d \cup DOMAIN e |-> IF k \in DOMAIN e THEN e[k] ELSE d[k]]

\* src/task.py:641-650, the dict handed to taskw.filter()
FullFilter(filterdict) ==
    DictUpdate(IF held THEN DictUpdate(filterdict, [wait__after |-> <<"now">>])
               ELSE filterdict,
               tagfilters)

\* src/task.py:643-646, the words handed to taskw.filter()
filterwords ==
    IF blocked = "True" THEN {"+BLOCKED"}
    ELSE IF blocked = "False" THEN {"-BLOCKED"}
    ELSE {}

\* src/task.py:641-650: the matching tasks, as store indices in store order
taskfilter(filterdict) ==
    LET full == FullFilter(filterdict)
    IN  Ascending({n \in 1..Len(store) :
                      TaskMatches(store[n], filterwords, full)})

-----------------------------------------------------------------------------
(* _taskget: one iteration of the loop over taskargs (src/task.py:752-837) *)
(* works on a record st of the closure's variables:                        *)
(*   tasks, firstmatch, queries, and ctl, what the iteration does next:    *)
(*   "fall" (go on to the next tier), "continue", "break" or "bomb".       *)
(* firstmatch is [none |-> TRUE] while None, and otherwise holds in t the  *)
(* matched task ({} for the [] that taskupdate stores for no match).       *)

Range(seq) == {seq[j] : j \in 1..Len(seq)}

FirstNone == [none |-> TRUE, t |-> {}]

\* one taskw.filter() call, recorded with the token and tier that issued it
Logged(st, n, tier, filterdict) ==
    [st EXCEPT !.queries =
        Append(@, [tok |-> n, tier |-> tier, filter |-> FullFilter(filterdict)])]

\* set.update(): a task whose uuid is in the set already is not added
RECURSIVE SetUpdate(_, _)
SetUpdate(set, matches) ==
    IF Len(matches) = 0 THEN set
    ELSE SetUpdate(
            IF \E m \in set : store[m].uuid = store[Head(matches)].uuid
            THEN set ELSE set \cup {Head(matches)},
            Tail(matches))

\* src/task.py:660-669; first is list(matches)[0], 0 when matches is empty
taskupdate(st, matches, first) ==
    [st EXCEPT
        !.firstmatch = IF @.none
                       THEN [none |-> FALSE,
                             t |-> IF first = 0 THEN {} ELSE {first}]
                       ELSE @,
        !.tasks = SetUpdate(@, matches)]

First(matches) == IF Len(matches) = 0 THEN 0 ELSE matches[1]

\* update_matches without the uniqueness check
update_matches_nouniq(st, n, tier, idtype, arg) ==
    LET matches == taskfilter([k \in {idtype} |-> arg])
        st1 == Logged(st, n, tier, [k \in {idtype} |-> arg])
    IN  IF matches # <<>>
        THEN [taskupdate(st1, matches, First(matches)) EXCEPT
                    !.ctl = IF multi THEN "continue" ELSE "break"]
        ELSE IF ~multi THEN [st1 EXCEPT !.ctl = "bomb"]
        ELSE IF ~idstrings THEN [st1 EXCEPT !.ctl = "continue"]
        ELSE [st1 EXCEPT !.ctl = "fall"]

\* update_matches returning None (fall through) for every failed lookup
update_matches_fallthrough(st, n, tier, idtype, arg) ==
    LET matches == taskfilter([k \in {idtype} |-> arg])
        st1 == Logged(st, n, tier, [k \in {idtype} |-> arg])
    IN  IF matches # <<>>
        THEN IF Len(matches) # 1 THEN [st1 EXCEPT !.ctl = "bomb"]
             ELSE [taskupdate(st1, matches, First(matches)) EXCEPT
                    !.ctl = IF multi THEN "continue" ELSE "break"]
        ELSE [st1 EXCEPT !.ctl = "fall"]

\* update_matches that never returns None: a failed lookup under multi
\* always goes on to the next token
update_matches_strict(st, n, tier, idtype, arg) ==
    LET matches == taskfilter([k \in {idtype} |-> arg])
        st1 == Logged(st, n, tier, [k \in {idtype} |-> arg])
    IN  IF matches # <<>>
        THEN IF Len(matches) # 1 THEN [st1 EXCEPT !.ctl = "bomb"]
             ELSE [taskupdate(st1, matches, First(matches)) EXCEPT
                    !.ctl = IF multi THEN "continue" ELSE "break"]
        ELSE IF ~multi THEN [st1 EXCEPT !.ctl = "bomb"]
        ELSE [st1 EXCEPT !.ctl = "continue"]

\* src/task.py:689-700: True is "continue", False "break", None "fall"
update_matches(st, n, tier, idtype, arg) ==
    LET matches == taskfilter([k \in {idtype} |-> arg])
        st1 == Logged(st, n, tier, [k \in {idtype} |-> arg])
    IN  IF matches # <<>>
        THEN IF Len(matches) # 1 THEN [st1 EXCEPT !.ctl = "bomb"]
             ELSE [taskupdate(st1, matches, First(matches)) EXCEPT
                    !.ctl = IF multi THEN "continue" ELSE "break"]
        ELSE IF ~multi THEN [st1 EXCEPT !.ctl = "bomb"]
        ELSE IF ~idstrings THEN [st1 EXCEPT !.ctl = "continue"]
        ELSE [st1 EXCEPT !.ctl = "fall"]

\* src/task.py:766-775
TierId(st, n) ==
    LET taskarg == taskargs[n] IN
    IF st.ctl = "fall" /\ IsInt(taskarg)
    THEN update_matches(Logged(st, n, "id", [id |-> IntOf(taskarg)]),
                        n, "id", "id", IntOf(taskarg))
    ELSE st

\* src/task.py:777-785
TierUuid(st, n) ==
    LET taskarg == taskargs[n] IN
    IF st.ctl = "fall" /\ IsUuid(taskarg)
    THEN update_matches(st, n, "uuid", "uuid", StrOfUuid(taskarg))
    ELSE st

\* src/task.py:787-794
TierUuidInitial(st, n) ==
    LET taskarg == taskargs[n] IN
    IF st.ctl = "fall" /\ issubset(taskarg, hexdigits \cup {"-"})
    THEN update_matches(st, n, "uuid-initial", "uuid", taskarg)
    ELSE st

\* src/task.py:799-814, the filters of the label/FQL tier
LabelFilters(taskarg) ==
    LET matchop == IF exact THEN "is" ELSE "has"
        segs == split(taskarg, "/")
        project == join(SubSeq(segs, 1, Len(segs) - 1), ".")
        label == segs[Len(segs)]
    IN  IF \E j \in 1..Len(taskarg) : taskarg[j] = "/"
        THEN <<[k \in {"project__" \o matchop, "label__" \o matchop} |->
                    IF k = "project__" \o matchop THEN project ELSE label]>>
             \o (IF ~exact
                 THEN <<[k \in {"project__" \o matchop} |->
                            replace(taskarg, "/", ".")]>>
                 ELSE <<>>)
        ELSE <<[k \in {"label__" \o matchop} |-> taskarg]>>

\* src/task.py:652-658; st.matches is the closure's matches when it returns
RECURSIVE runfilters(_, _, _)
runfilters(st, n, filters) ==
    IF Len(filters) = 0 THEN st
    ELSE LET matches == taskfilter(Head(filters))
             st1 == [Logged(st, n, "label", Head(filters)) EXCEPT
                        !.matches = matches]
         IN  IF matches # <<>>
             THEN LET st2 == taskupdate(st1, matches, First(matches))
                  IN  IF ~multi THEN st2
                      ELSE runfilters(st2, n, Tail(filters))
             ELSE runfilters(st1, n, Tail(filters))

\* src/task.py:796-817
TierLabel(st, n) ==
    LET taskarg == taskargs[n] IN
    IF st.ctl = "fall" /\ issubset(taskarg, lowercase \cup digits \cup {"-", "/"})
    THEN LET st1 == runfilters(st, n, LabelFilters(taskarg))
         IN  IF st1.matches # <<>> /\ ~multi
             THEN [st1 EXCEPT !.ctl = "break"] ELSE st1
    ELSE st

\* src/task.py:819-822
TierIdonly(st, n) ==
    IF st.ctl = "fall" /\ idonly
    THEN [st EXCEPT !.ctl = IF multi THEN "continue" ELSE "break"]
    ELSE st

\* src/task.py:826-833: ftasks, in the order its tasks were added
RECURSIVE DescFilters(_, _, _, _)
DescFilters(st, n, fields, ftasks) ==
    IF Len(fields) = 0 THEN [st |-> st, ftasks |-> ftasks]
    ELSE LET filt == [k \in {Head(fields) \o "__has"} |-> taskargs[n]]
             fftasks == taskfilter(filt)
             st1 == Logged(st, n, "description", filt)
         IN  IF fftasks # <<>>
             THEN IF ~multi
                  THEN [st |-> st1, ftasks |-> ftasks \o fftasks]
                  ELSE DescFilters(st1, n, Tail(fields), ftasks \o fftasks)
             ELSE DescFilters(st1, n, Tail(fields), ftasks)

\* src/task.py:824-837, up to the call of taskupdate(ftasks): st.ftasks is
\* the set handed to it, and st.ctl is "desc" for an iteration that gets here
TierDesc(st, n) ==
    IF st.ctl = "fall"
    THEN LET r == DescFilters(st, n, <<"description", "label", "project">>, <<>>)
         IN  [r.st EXCEPT !.ftasks = r.ftasks, !.ctl = "desc"]
    ELSE st

\* src/task.py:757-833, the body of the loop for taskargs[n]
LoopBody(n) ==
    LET st0 == [tasks |-> tasks, firstmatch |-> firstmatch, queries |-> queries,
                matches |-> <<>>, ftasks |-> <<>>,
                ctl |-> IF taskargs[n] = <<>> THEN "bomb" ELSE "fall"]
    IN  TierDesc(TierIdonly(TierLabel(TierUuidInitial(TierUuid(TierId(st0, n), n),
                                      n), n), n), n)

\* src/task.py:834-837: taskupdate(ftasks) and the break that follows it;
\* pick is list(ftasks)[0], the element the python set happens to list
\* first (0 when ftasks is empty)
DescUpdate(st, pick) ==
    LET st1 == taskupdate(st, st.ftasks, pick)
    IN  [st1 EXCEPT
            !.ctl = IF st1.tasks # {} /\ ~multi THEN "break" ELSE "continue"]

-----------------------------------------------------------------------------
(* Current-task tracker *)

uppercase == {"A", "B", "C", "D", "E", "F", "G", "H", "I", "J", "K", "L", "M",
              "N", "O", "P", "Q", "R", "S", "T", "U", "V", "W", "X", "Y", "Z"}

\* src/task.py:272-275: search() of ((label/)+)(label)$ finds a match iff
\* the string ends in c/label for a label character c
isfql(s) ==
    LET labelre == digits \cup lowercase \cup uppercase \cup {"-", "_"}
    IN  \E j \in 2..(Len(s) - 1) :
            /\ s[j] = "/"
            /\ s[j - 1] \in labelre
            /\ \A m \in (j + 1)..Len(s) : s[m] \in labelre

\* a variant of TasknowExport that fails on a second FQL-shaped tag
TasknowExport_one ==
    LET one == {n \in 1..Len(ledger) : ledger[n]["id"] = 1}
        curtask == ledger[CHOOSE n \in one : \A m \in one : n <= m]
        tags == curtask["tags"]
        fqls == {j \in 1..Len(tags) : isfql(tags[j])}
    IN  IF one = {} \/ "tags" \notin DOMAIN curtask \/ Cardinality(fqls) # 1
        THEN [ok |-> FALSE, fql |-> None, active |-> FALSE]
        ELSE [ok |-> TRUE,
              fql |-> tags[CHOOSE j \in fqls : TRUE],
              active |-> "end" \notin DOMAIN curtask]

\* src/task.py:286-292: what a run of the export finds; ok is FALSE when
\* the try block raises and _tasknow bombs
TasknowExport ==
    LET one == {n \in 1..Len(ledger) : ledger[n]["id"] = 1}
        curtask == ledger[CHOOSE n \in one : \A m \in one : n <= m]
        tags == curtask["tags"]
        fqls == {j \in 1..Len(tags) : isfql(tags[j])}
    IN  IF one = {} \/ "tags" \notin DOMAIN curtask \/ fqls = {}
        THEN [ok |-> FALSE, fql |-> None, active |-> FALSE]
        ELSE [ok |-> TRUE,
              fql |-> tags[CHOOSE j \in fqls : \A m \in fqls : j <= m],
              active |-> "end" \notin DOMAIN curtask]

\* a variant of _tasknow that reads the ledger on every call
_tasknow_fresh == TasknowExport

\* src/task.py:280-296, the value returned (and cached when ok)
_tasknow ==
    IF DOMAIN nowcache # {}
    THEN [ok |-> TRUE, fql |-> nowcache["fql"], active |-> nowcache["active"]]
    ELSE TasknowExport

-----------------------------------------------------------------------------
(* Inputs of a resolving process *)

MaxArgs == 2        \* most positional arguments on the command line

Zeros(n) == [j \in 1..n |-> "0"]
Uuid(a, b) ==
    <<a, b>> \o Zeros(6) \o <<"-">> \o Zeros(4) \o <<"-">> \o Zeros(4)
        \o <<"-">> \o Zeros(4) \o <<"-">> \o Zeros(12)

StoredTask(id, uuid, project, label, description, tags) ==
    [id |-> id, uuid |-> uuid, project |-> project, label |-> label,
     description |-> description, tags |-> tags,
     waiting |-> FALSE, blocked |-> FALSE]

tA == StoredTask(1, Uuid("c", "1"), <<"p">>, <<"x", "y">>, <<"Q">>, {<<"t">>})
tB == StoredTask(2, Uuid("c", "2"), <<"p", ".", "r">>, <<"x", "y", "z">>,
                 <<"Q", "b">>, {})
\* a second record with the id and uuid of tB: a corrupt store
tC == StoredTask(2, Uuid("c", "2"), <<"p">>, <<"w">>, <<"d">>, {})
tE == StoredTask(3, Uuid("d", "0"), <<"q">>, <<"c", "2">>, <<"Q", "c">>,
                 {<<"t">>})

Stores == {<<>>, <<tA>>, <<tA, tB>>, <<tA, tB, tC>>, <<tE>>}

Tokens == {<<"2">>, Uuid("c", "2"), <<"c">>, <<"x", "y">>, <<"Q">>,
           <<"+", "t">>}

\* the command lines: up to MaxArgs different tokens, in any order
ArgLists ==
    {a \in UNION {[1..k -> Tokens] : k \in 0..MaxArgs} :
        \A j, k \in 1..Len(a) : j # k => a[j] # a[k]}

Verbs == {"taskget", "taskid", "taskuuid", "taskfql"}

Interval(tags) == [k \in {"id", "tags"} |-> IF k = "id" THEN 1 ELSE tags]

Ledgers == {<<>>,
            <<Interval(<< <<"p", "/">>, <<"p", "/", "x", "y">>, <<"+", "t">> >>)>>}

GInit ==
    /\ store \in Stores
    /\ invname \in Verbs
    /\ cli \in SUBSET CliFlags
    /\ argv \in ArgLists
    \* the ledger is read only by a process without a positional token
    \* (src/task.py:747-750): for the others one ledger stands for all
    /\ ledger \in IF PlainArgs(Taskargs) = <<>> THEN Ledgers ELSE {<<>>}
    /\ pc = "enter"
    /\ taskargs = <<>>
    /\ tagfilters = EmptyDict
    /\ ti = 1
    /\ ran = FALSE
    /\ tasks = {}
    /\ firstmatch = FirstNone
    /\ queries = <<>>
    /\ tried = {}
    /\ items = {}
    /\ getcache = EmptyDict
    /\ nowcache = EmptyDict
    /\ stdout = <<>>
    /\ exit = "running"

-----------------------------------------------------------------------------
(* _taskget *)

\* a key made of the positional tokens alone
taskkey_plain == <<PlainArgs(Taskargs), EmptyDict>>

\* src/task.py:741, the list the cache is indexed by
taskkey == <<PlainArgs(Taskargs), TagFilters(Taskargs)>>

\* src/task.py:57-59
Bomb ==
    /\ exit' = "EXIT_FAILURE"
    /\ pc' = "exit"

\* a copy that is the container it was given
copy_same(value) == [val |-> value, same |-> TRUE, shared |-> TRUE]

\* src/task.py:35, 616 and 624: copy(value) of module copy, the shallow
\* copy.  The result is a new container that holds the very task objects
\* of value: `same` tells whether the container is the one the caller of
\* _taskget holds, `shared` whether its elements are the caller's
copy(value) == [val |-> value, same |-> FALSE, shared |-> TRUE]

\* the caller is about to get another container: the containers of the
\* cache have nothing in common with it, but for the entry of its key
Dropped(cache) ==
    [k \in DOMAIN cache |-> [val |-> cache[k].val, same |-> FALSE,
                             shared |-> FALSE]]

\* src/task.py:613-618: getcache after cache_insert(args, value), which
\* returns value itself
cache_insert(args, value) ==
    DictUpdate(Dropped(getcache), [k \in {args} |-> copy(value)])

\* src/task.py:620-625: what cache_get(args) returns for a key the cache
\* has, and the cache as it stands to the returned container
cache_get(args) ==
    [got |-> copy(getcache[args].val).val,
     cache |-> DictUpdate(Dropped(getcache),
                          [k \in {args} |-> copy(getcache[args].val)])]

\* src/task.py:704-750: options, tag split, cache lookup, default token
taskget_enter ==
    /\ pc = "enter"
    /\ tagfilters' = TagFilters(Taskargs)
    /\ IF taskkey \in DOMAIN getcache
       THEN /\ items' = cache_get(taskkey).got
            /\ getcache' = cache_get(taskkey).cache
            /\ pc' = "returned"
            /\ UNCHANGED <<taskargs, nowcache, exit>>
       ELSE IF PlainArgs(Taskargs) # <<>>
       THEN /\ taskargs' = PlainArgs(Taskargs)
            /\ pc' = "loop"
            /\ UNCHANGED <<items, getcache, nowcache, exit>>
       ELSE IF _tasknow.ok
       THEN /\ taskargs' = <<_tasknow.fql>>
            /\ nowcache' = [k \in {"fql", "active"} |->
                              IF k = "fql" THEN <<_tasknow.fql>>[1]
                              ELSE _tasknow.active]
            /\ pc' = "loop"
            /\ UNCHANGED <<items, getcache, exit>>
       ELSE /\ Bomb
            /\ UNCHANGED <<taskargs, items, getcache, nowcache>>
    /\ UNCHANGED <<store, ledger, invname, cli, argv, ti, ran, tasks,
                   firstmatch, queries, tried, stdout>>
    /\ UNCHANGED fvars
    /\ UNCHANGED svars

\* src/task.py:752-837: one iteration of the loop over taskargs
taskget_token ==
    /\ pc = "loop"
    /\ IF ran /\ ~multi
       THEN /\ pc' = "end"
            /\ UNCHANGED <<ti, ran, tasks, firstmatch, queries, tried, exit>>
       ELSE LET body == LoopBody(ti) IN
            \E pick \in IF body.ctl = "desc" /\ body.ftasks # <<>>
                        THEN SetUpdate({}, body.ftasks) ELSE {0} :
              LET st == IF body.ctl = "desc" THEN DescUpdate(body, pick)
                        ELSE body
              IN
              /\ ran' = TRUE
              /\ tried' = tried \cup {ti}
              /\ tasks' = st.tasks
              /\ firstmatch' = st.firstmatch
              /\ queries' = st.queries
              /\ IF st.ctl = "bomb"
                 THEN Bomb /\ UNCHANGED ti
                 ELSE IF st.ctl = "break" \/ ti = Len(taskargs)
                 THEN pc' = "end" /\ UNCHANGED <<ti, exit>>
                 ELSE pc' = "loop" /\ ti' = ti + 1 /\ UNCHANGED exit
    /\ UNCHANGED <<store, ledger, invname, cli, argv, taskargs, tagfilters,
                   items, getcache, nowcache, stdout>>
    /\ UNCHANGED fvars
    /\ UNCHANGED svars

\* a task of the store as the caller sees it
View(n) == [idx |-> n, id |-> store[n].id, uuid |-> store[n].uuid]
\* the element [firstmatch] holds when firstmatch is []
Junk == [idx |-> 0, id |-> 0, uuid |-> <<>>]

\* the return value without the narrowing to [firstmatch]
ReturnedItems_nonarrow ==
    IF Cardinality(tasks) = 0
    THEN IF zero THEN {dummy_task(0)} ELSE {}
    ELSE {View(n) : n \in tasks}

\* src/task.py:839-847
ReturnedItems ==
    LET taskn == Cardinality(tasks) IN
    IF taskn = 0
    THEN IF zero THEN {dummy_task(0)} ELSE {}
    ELSE IF taskn > 1 /\ ~multi
    THEN IF firstmatch.t = {} THEN {Junk} ELSE {View(n) : n \in firstmatch.t}
    ELSE {View(n) : n \in tasks}

\* src/task.py:839-849
taskget_return ==
    /\ pc = "end"
    /\ items' = ReturnedItems
    /\ getcache' = cache_insert(taskkey, ReturnedItems)
    /\ pc' = "returned"
    /\ UNCHANGED <<store, ledger, invname, cli, argv, taskargs, tagfilters, ti,
                   ran, tasks, firstmatch, queries, tried, nowcache, stdout,
                   exit>>
    /\ UNCHANGED fvars
    /\ UNCHANGED svars

-----------------------------------------------------------------------------
(* The verbs that call _taskget *)

\* src/task.py:598-600: pp([t._data for t in tasks]); the dummy task of
\* --zero is a plain dict, without _data
taskget ==
    /\ pc = "returned"
    /\ invname = "taskget"
    /\ IF \E t \in items : t.idx = 0
       THEN exit' = "exception" /\ UNCHANGED stdout
       ELSE /\ \E order \in [1..Cardinality(items) -> items] :
                 /\ \A j, k \in DOMAIN order : j # k => order[j] # order[k]
                 /\ stdout' = stdout \o [j \in DOMAIN order |-> order[j].uuid]
            /\ exit' = "EXIT_SUCCESS"
    /\ pc' = "exit"
    /\ UNCHANGED <<store, ledger, invname, cli, argv, taskargs, tagfilters, ti,
                   ran, tasks, firstmatch, queries, tried, items, getcache,
                   nowcache>>
    /\ UNCHANGED fvars
    /\ UNCHANGED svars

\* src/task.py:568-572
TaskIdOf(task, useuuid) ==
    IF task.id # 0 /\ ~useuuid THEN StrOfInt(task.id) ELSE task.uuid

\* src/task.py:562-587 with onlyone: print(_taskid(...))
taskid ==
    /\ pc = "returned"
    /\ invname \in {"taskid", "taskuuid"}
    /\ IF items # {}
       THEN \E first \in items :
               stdout' = Append(stdout, TaskIdOf(first, invname = "taskuuid"))
       ELSE stdout' = Append(stdout, dummy_match(0))
    /\ exit' = "EXIT_SUCCESS"
    /\ pc' = "exit"
    /\ UNCHANGED <<store, ledger, invname, cli, argv, taskargs, tagfilters, ti,
                   ran, tasks, firstmatch, queries, tried, items, getcache,
                   nowcache>>
    /\ UNCHANGED fvars
    /\ UNCHANGED svars

\* __taskone that hands out no dummy task for several matches
__taskone_nozero(popped) ==
    LET ntasks == Cardinality(items) IN
    IF ntasks = 1 THEN [success |-> ~isfailuuid(popped.uuid), onetask |-> {popped}]
    ELSE [success |-> FALSE, onetask |-> {}]

\* src/task.py:151-161, given the popped element: <<success, onetask>>,
\* onetask {} when there is nothing to show
__taskone(popped) ==
    LET ntasks == Cardinality(items) IN
    IF ntasks = 1 THEN [success |-> ~isfailuuid(popped.uuid), onetask |-> {popped}]
    ELSE IF ntasks > 1
    THEN [success |-> FALSE,
          onetask |-> IF "z" \in cli THEN {dummy_task(ntasks)} ELSE {}]
    ELSE [success |-> FALSE, onetask |-> {}]

\* src/task.py:163-170 and 181-191: print(_taskfql(*args)), abort True
taskone ==
    /\ pc = "returned"
    /\ invname = "taskfql"
    /\ \E popped \in items \cup (IF items = {} THEN {Junk} ELSE {}) :
         LET r == __taskone(popped) IN
         IF ~r.success
         THEN /\ stdout' = stdout \o
                            (IF r.onetask = {} THEN <<>>
                             ELSE <<(CHOOSE t \in r.onetask : TRUE).uuid>>)
              /\ exit' = "EXIT_FAILURE"
         ELSE /\ stdout' = Append(stdout, __taskfql(store[popped.idx], FALSE))
              /\ exit' = "EXIT_SUCCESS"
    /\ pc' = "exit"
    /\ UNCHANGED <<store, ledger, invname, cli, argv, taskargs, tagfilters, ti,
                   ran, tasks, firstmatch, queries, tried, items, getcache,
                   nowcache>>
    /\ UNCHANGED fvars
    /\ UNCHANGED svars

FIdle ==
    /\ ftask = EmptyDict
    /\ fpc = "idle"
    /\ fqlout = None
    /\ tagsout = <<>>

\* no hook invocation
SIdle ==
    /\ old = EmptyDict
    /\ new = EmptyDict
    /\ ops = <<>>
    /\ run = 0
    /\ before = <<>>

Init == GInit /\ FIdle /\ SIdle

Next == taskget_enter \/ taskget_token \/ taskget_return
            \/ taskget \/ taskid \/ taskone

Spec == Init /\ [][Next]_vars

-----------------------------------------------------------------------------
(* taskget run on command lines that have tag words, unknown options and *)
(* "--" in them                                                           *)

MaxWords == 3       \* most words on the command line after the flags

TagWords == {<<"x", "y">>, <<"2">>, <<"+", "t">>, <<"-", "t">>, <<"-", "-">>}

TInit ==
    /\ store \in {<<tA>>, <<tA, tB>>, <<tE>>}
    /\ invname = "taskget"
    /\ cli \in SUBSET {"o", "z"}
    /\ argv \in UNION {[1..k -> TagWords] : k \in 0..MaxWords}
    /\ ledger \in IF PlainArgs(Taskargs) = <<>> THEN Ledgers ELSE {<<>>}
    /\ pc = "enter"
    /\ taskargs = <<>>
    /\ tagfilters = EmptyDict
    /\ ti = 1
    /\ ran = FALSE
    /\ tasks = {}
    /\ firstmatch = FirstNone
    /\ queries = <<>>
    /\ tried = {}
    /\ items = {}
    /\ getcache = EmptyDict
    /\ nowcache = EmptyDict
    /\ stdout = <<>>
    /\ exit = "running"
    /\ FIdle
    /\ SIdle

TNext == taskget_enter \/ taskget_token \/ taskget_return \/ taskget

SpecTags == TInit /\ [][TNext]_vars

-----------------------------------------------------------------------------
(* Inputs of the FQL deriver.  The task store keeps no attribute with an  *)
(* empty value, so a present project or label is a non-empty string.      *)

PrjChars == {"a", ".", "/"}
LabelChars == {"b", "/"}
TagNames == {<<"t">>, <<"u">>}

TagLists ==
    {s \in UNION {[1..k -> TagNames] : k \in 0..MaxTags} :
        \A i, j \in 1..Len(s) : i # j => s[i] # s[j]}

\* a dict with exactly the keys whose value is given
Dict(prj, label, tags) ==
    LET keys == (IF prj = None THEN {} ELSE {"project"})
                \cup (IF label = None THEN {} ELSE {"label"})
                \cup (IF tags = None THEN {} ELSE {"tags"})
    IN  [k \in keys |-> CASE k = "project" -> prj
                          [] k = "label" -> label
                          [] k = "tags" -> tags]

FqlTasks ==
    {Dict(p, l, t) : p \in StrUpTo(PrjChars, MaxPrjLen) \cup {None},
                     l \in StrUpTo(LabelChars, MaxLabelLen) \cup {None},
                     t \in TagLists \cup {None}}

\* no resolving process
GIdle ==
    /\ store = <<>>
    /\ ledger = <<>>
    /\ invname = "taskfql"
    /\ cli = {}
    /\ argv = <<>>
    /\ pc = "exit"
    /\ taskargs = <<>>
    /\ tagfilters = EmptyDict
    /\ ti = 1
    /\ ran = FALSE
    /\ tasks = {}
    /\ firstmatch = FirstNone
    /\ queries = <<>>
    /\ tried = {}
    /\ items = {}
    /\ getcache = EmptyDict
    /\ nowcache = EmptyDict
    /\ stdout = <<>>
    /\ exit = "running"

FInit ==
    /\ ftask \in FqlTasks
    /\ fpc = "in"
    /\ fqlout = None
    /\ tagsout = <<>>
    /\ GIdle
    /\ SIdle

\* src/task.py:190-191, taskfql: print(__taskfql(task))
taskfql ==
    /\ fpc = "in"
    /\ fqlout' = __taskfql(ftask, FALSE)
    /\ fpc' = "fql"
    /\ UNCHANGED <<ftask, tagsout>>
    /\ UNCHANGED gvars
    /\ UNCHANGED svars

\* src/task.py:227-229, timewtags: print(join(_timewtags(task)))
timewtags ==
    /\ fpc = "fql"
    /\ tagsout' = _timewtags(ftask)
    /\ fpc' = "tags"
    /\ UNCHANGED <<ftask, fqlout>>
    /\ UNCHANGED gvars
    /\ UNCHANGED svars

FNext == taskfql \/ timewtags

SpecFql == FInit /\ [][FNext]_vars

-----------------------------------------------------------------------------
(* Properties of the FQL deriver, under SpecFql *)

HasChar(s, c) == \E i \in 1..Len(s) : s[i] = c
FProject == getitem(ftask, "project")
FLabel == getitem(ftask, "label")
FTags == IF "tags" \in DOMAIN ftask THEN ftask["tags"] ELSE <<>>
FSegs == split(fqlout, "/")
\* ftask's FQL round-trips: all segments but the last joined with '.' give
\* the project, the last segment is the label
RoundTrips ==
    /\ join(SubSeq(FSegs, 1, Len(FSegs) - 1), ".") = FProject
    /\ FSegs[Len(FSegs)] = FLabel

\* C8 as stated: for every task, __taskfql(T) is absent iff label or project
\* is absent, and otherwise it round-trips to (project, label).
C8_RoundTripEveryTask ==
    fpc # "in" =>
        /\ (fqlout = None) <=> (FProject = None \/ FLabel = None)
        /\ fqlout # None => RoundTrips

\* C8 amended: __taskfql(T) is absent iff label or project is absent;
\* otherwise, provided neither project nor label contains '/', splitting the
\* result on '/' and joining all but the last segment with '.' gives the
\* project, and the last segment is the label.
C8_RoundTripNoSlash ==
    fpc # "in" =>
        /\ (fqlout = None) <=> (FProject = None \/ FLabel = None)
        /\ (fqlout # None /\ ~HasChar(FProject, "/") /\ ~HasChar(FLabel, "/"))
               => RoundTrips

C8_Witness ==
    /\ fpc # "in"
    /\ FProject = <<"a", ".", "a">>
    /\ FLabel = <<"b">>
    /\ fqlout = <<"a", "/", "a", "/", "b">>

\* entries of _timewtags(ftask) that are / are not of the form +tag
PlusEntries == {i \in 1..Len(tagsout) : tagsout[i][1] = "+"}
HierEntries == {i \in 1..Len(tagsout) : tagsout[i][1] # "+"}

\* C9 as stated: a task whose FQL has k segments gets exactly k+1
\* hierarchical entries and exactly |tags| entries of the form +tag.
C9_KPlusOneEntries ==
    (fpc = "tags" /\ fqlout # None) =>
        /\ Cardinality(HierEntries) = Len(FSegs) + 1
        /\ Cardinality(PlusEntries) = Len(FTags)

\* C9 amended: a task whose FQL has k segments gets exactly k hierarchical
\* entries: k-1 prefixes, each with a trailing slash, and then the full
\* FQL with nothing appended; and exactly |tags| entries of the form +tag.
C9_KEntries ==
    (fpc = "tags" /\ fqlout # None) =>
        LET k == Len(FSegs) IN
        /\ Cardinality(HierEntries) = k
        /\ HierEntries = 1..k
        /\ \A i \in 1..(k - 1) : tagsout[i][Len(tagsout[i])] = "/"
        /\ tagsout[k] = fqlout
        /\ Cardinality(PlusEntries) = Len(FTags)

C9_Witness ==
    /\ fpc = "tags"
    /\ fqlout = <<"a", "/", "a", "/", "b">>
    /\ Len(FSegs) = 3
    /\ Len(FTags) = 2
    /\ Len(tagsout) = 5

\* the position of the i-th '/' of s
SlashPos(s, i) ==
    CHOOSE j \in 1..Len(s) :
        /\ s[j] = "/"
        /\ Cardinality({m \in 1..j : s[m] = "/"}) = i

\* C10: for a task with an FQL, _timewtags(T) is the proper prefixes of the
\* FQL's segments, each suffixed with '/', in increasing length, then the
\* full FQL with no slash appended, followed by '+t' for each tag t in
\* order; for a task with no FQL it holds only the '+t' entries.
C10_LadderThenTags ==
    fpc = "tags" =>
        LET k == IF fqlout = None THEN 0
                 ELSE Cardinality({i \in 1..Len(fqlout) : fqlout[i] = "/"}) + 1
        IN
        /\ Len(tagsout) = k + Len(FTags)
        /\ \A j \in 1..Len(FTags) : tagsout[k + j] = <<"+">> \o FTags[j]
        /\ fqlout # None =>
              /\ \A i \in 1..(k - 1) :
                    tagsout[i] = SubSeq(fqlout, 1, SlashPos(fqlout, i))
              /\ tagsout[k] = fqlout

C10_Witness ==
    /\ fpc = "tags"
    /\ tagsout = << <<"a", "/">>, <<"a", "/", "a", "/">>,
                    <<"a", "/", "a", "/", "b">>, <<"+", "t">> >>

-----------------------------------------------------------------------------
(* Properties of the resolver, under Spec *)

\* the queries issued for taskargs[n], and the tiers that issued them
QueriesOf(n) == {q \in Range(queries) : q.tok = n}
Tiers(n) == {q.tier : q \in QueriesOf(n)}

\* the store indices a logged query returned
Hits(q) == {i \in 1..Len(store) : TaskMatches(store[i], filterwords, q.filter)}

\* _taskget has returned to its caller / the process died inside _taskget
Returned == DOMAIN getcache # {}
Fatal == pc = "exit" /\ exit = "EXIT_FAILURE" /\ ~Returned

\* the loop went on from taskargs[n]: its next token is resolved, or, after
\* the last token, the resolver returns
WentOn(n) ==
    IF n < Len(taskargs)
    THEN n + 1 \in tried \/ (pc = "loop" /\ ti = n + 1 /\ multi)
    ELSE ~Fatal

\* the tokens resolved so far, by grammar
IntTokens == {n \in tried : IsInt(taskargs[n])}
IdTokens == {n \in tried : IsInt(taskargs[n]) \/ IsUuid(taskargs[n])}
HexTokens == {n \in tried : /\ ~IsInt(taskargs[n])
                            /\ ~IsUuid(taskargs[n])
                            /\ issubset(taskargs[n], hexdigits \cup {"-"})}

\* what the lookup by id (integer token) or by uuid (full uuid) returns
IdLookup(n) ==
    IF IsInt(taskargs[n]) THEN taskfilter([id |-> IntOf(taskargs[n])])
    ELSE taskfilter([uuid |-> StrOfUuid(taskargs[n])])

\* what the lookup by uuid prefix returns
PrefixLookup(n) == taskfilter([uuid |-> taskargs[n]])

\* C1 as stated: for a token that parses as an integer, whatever options
\* are set and whether or not the id lookup matched, the only store queries
\* issued for it are lookups by id.
C1_IntegerOnlyById ==
    \A n \in IntTokens : Tiers(n) = {"id"}

\* C1 amended: a token that parses as an integer is looked up by id; no
\* other query is issued for it, unless multi and idstrings are both set
\* and the id lookup matched nothing, in which case the token goes on to
\* the uuid-prefix tier.
C1_IntegerByIdUnlessIdstrings ==
    \A n \in IntTokens :
        /\ "id" \in Tiers(n)
        /\ \A q \in QueriesOf(n) :
              q.tier = "id" => /\ "id" \in DOMAIN q.filter
                               /\ q.filter["id"] = IntOf(taskargs[n])
        /\ (multi /\ idstrings /\ IdLookup(n) = <<>>)
              => "uuid-initial" \in Tiers(n)
        /\ ~(multi /\ idstrings /\ IdLookup(n) = <<>>)
              => Tiers(n) = {"id"}

C1_Witness ==
    \E n \in IntTokens :
        /\ cli = {"x", "z"}
        /\ IdLookup(n) = <<>>
        /\ Tiers(n) = {"id"}
        /\ n + 1 \in tried
        /\ tasks # {}

\* C2 as stated: for an integer or full-UUID token, zero matches are fatal
\* when multi is false; when multi is true the token is skipped and the
\* remaining tokens are still resolved; more than one match is fatal
\* whatever multi is.
C2_SkippedUnderMulti ==
    \A n \in IdTokens :
        /\ Len(IdLookup(n)) > 1 => Fatal
        /\ (IdLookup(n) = <<>> /\ ~multi) => Fatal
        /\ (IdLookup(n) = <<>> /\ multi)
              => (Tiers(n) \subseteq {"id", "uuid"} /\ WentOn(n))

\* C2 amended: for an integer or full-UUID token, zero matches are fatal
\* when multi is false; when multi is true and idstrings is false the token
\* is skipped and the remaining tokens are still resolved; more than one
\* match is fatal whatever multi is.
C2_SkippedUnderMultiNoIdstrings ==
    \A n \in IdTokens :
        /\ Len(IdLookup(n)) > 1 => Fatal /\ n + 1 \notin tried
        /\ (IdLookup(n) = <<>> /\ ~multi) => Fatal /\ n + 1 \notin tried
        /\ (IdLookup(n) = <<>> /\ multi /\ ~idstrings)
              => (Tiers(n) \subseteq {"id", "uuid"} /\ WentOn(n))

C2_Witness ==
    \E n \in IdTokens :
        /\ IsUuid(taskargs[n])
        /\ IdLookup(n) = <<>>
        /\ multi /\ ~idstrings
        /\ n + 1 \in tried
        /\ tasks # {}
        /\ pc = "returned"

\* C3 as stated: for a hexadecimal token that is neither an integer nor a
\* full UUID, a uuid-prefix lookup that returns nothing is not fatal and
\* does not end the token's resolution: the token is next tried in the
\* label/FQL tier, and then in the description tier unless idonly is set.
C3_PrefixMissFallsToLabel ==
    \A n \in HexTokens :
        PrefixLookup(n) = <<>> =>
            /\ ~Fatal
            /\ "label" \in Tiers(n)
            /\ ~idonly => "description" \in Tiers(n)

\* C3 amended: for such a token a uuid-prefix lookup that returns nothing is
\* fatal when multi is false; skips the token when multi is true and
\* idstrings is false; and only when multi and idstrings are both true goes
\* on to the label/FQL tier (for a token of lowercase letters, digits and
\* '-') and then to the description tier unless idonly is set.
C3_PrefixMissByOptions ==
    \A n \in HexTokens :
        PrefixLookup(n) = <<>> =>
            /\ ~multi => (Fatal /\ Tiers(n) = {"uuid-initial"})
            /\ (multi /\ ~idstrings)
                  => (Tiers(n) = {"uuid-initial"} /\ WentOn(n))
            /\ (multi /\ idstrings) =>
                  /\ "uuid-initial" \in Tiers(n)
                  /\ "label" \in Tiers(n)
                        <=> issubset(taskargs[n], lowercase \cup digits \cup {"-"})
                  /\ "description" \in Tiers(n) <=> ~idonly
                  /\ WentOn(n)

C3_Witness ==
    \E n \in HexTokens :
        /\ PrefixLookup(n) = <<>>
        /\ multi /\ idstrings
        /\ {"uuid-initial", "label", "description"} \subseteq Tiers(n)
        /\ tasks # {}
        /\ pc = "returned"

\* C4: with multi false and several tokens, the tokens are tried in order
\* and the resolver stops at the first token that yields a match: when an
\* earlier token yields no match without a fatal error the next token is
\* still resolved, and once a token has matched no later token is queried.
C4_StopsAtFirstMatchingToken ==
    (~multi /\ pc \in {"end", "returned"}) =>
        /\ tasks = {} => tried = 1..Len(taskargs)
        /\ \A n \in tried : \A m \in tried :
              m < n => \A q \in QueriesOf(m) : Hits(q) = {}

\* C5: with multi false the result never holds more than one task: when
\* more than one task matched the resolver does not fail but returns
\* exactly the single task firstmatch, a member of the matched set, taken
\* from the first query, in tier and token order, that found anything.
C5_AtMostOneTask ==
    (pc = "returned" /\ ~multi) =>
        /\ Cardinality(items) <= 1
        /\ exit = "running"
        /\ Cardinality(tasks) > 1 =>
              /\ ~firstmatch.none
              /\ Cardinality(firstmatch.t) = 1
              /\ firstmatch.t \subseteq tasks
              /\ items = {View(n) : n \in firstmatch.t}
              /\ \E j \in 1..Len(queries) :
                    /\ firstmatch.t \subseteq Hits(queries[j])
                    /\ \A k \in 1..(j - 1) : Hits(queries[k]) = {}

C5_Witness ==
    /\ pc = "returned"
    /\ ~multi
    /\ Cardinality(tasks) > 1
    /\ Cardinality(items) = 1
    /\ \E q \in Range(queries) : q.tier = "description"

\* the sentinel uuids as printed: 124, 125 and 126 low bits set
Fs(n) == [j \in 1..n |-> "f"]
Sentinel(c) ==
    <<c>> \o Fs(7) \o <<"-">> \o Fs(4) \o <<"-">> \o Fs(4) \o <<"-">> \o Fs(4)
        \o <<"-">> \o Fs(12)
NoneUuid == Sentinel("0")
WrongUuid == Sentinel("1")
MultiUuid == Sentinel("3")

\* C6: when the whole pipeline matches no task, the result is empty if zero
\* is false, and if zero is true it is exactly one pseudo-task whose uuid is
\* the NONE sentinel, which differs from the MULTI and WRONG sentinels.
C6_ZeroMatchResult ==
    (pc = "returned" /\ tasks = {}) =>
        /\ ~zero => items = {}
        /\ zero =>
              /\ Cardinality(items) = 1
              /\ \A t \in items :
                    /\ t.id = 0
                    /\ t.uuid = NoneUuid
                    /\ t.uuid = failuuid("NONE")
                    /\ t.uuid \notin {failuuid("MULTI"), failuuid("WRONG")}

C6_Witness ==
    /\ pc = "returned"
    /\ tasks = {}
    /\ zero
    /\ Len(queries) > 2
    /\ \E t \in items : t.uuid = NoneUuid

\* C7 as stated: the verbs that print a uuid (taskid, taskuuid, and the
\* callers of _taskone) print a sentinel uuid whenever the resolution finds
\* no task or more than one.
C7_SentinelWheneverNotOne ==
    (pc = "exit" /\ Returned /\ invname \in {"taskid", "taskuuid", "taskfql"}
        /\ (tasks = {} \/ Cardinality(items) > 1))
    => stdout \in {<<NoneUuid>>, <<MultiUuid>>, <<WrongUuid>>}

\* C7 amended: taskid and taskuuid print the NONE sentinel when the
\* resolver returns no match, and the id or uuid of one of the matches when
\* it returns several; a caller of _taskone fails in both cases and prints
\* a sentinel only under the zero flag (NONE for no match, MULTI for
\* several), nothing otherwise; a process that dies inside the resolver
\* prints nothing.
C7_SentinelByVerb ==
    /\ Fatal => stdout = <<>>
    /\ (pc = "exit" /\ Returned /\ invname \in {"taskid", "taskuuid"}) =>
          /\ exit = "EXIT_SUCCESS"
          /\ tasks = {} => stdout = <<NoneUuid>>
          /\ Cardinality(items) > 1 =>
                \E t \in items :
                    stdout = <<IF invname = "taskid" THEN StrOfInt(t.id)
                               ELSE t.uuid>>
    /\ (pc = "exit" /\ Returned /\ invname = "taskfql") =>
          /\ tasks = {} =>
                /\ exit = "EXIT_FAILURE"
                /\ stdout = IF zero THEN <<NoneUuid>> ELSE <<>>
          /\ Cardinality(items) > 1 =>
                /\ exit = "EXIT_FAILURE"
                /\ stdout = IF zero THEN <<MultiUuid>> ELSE <<>>

C7_Witness ==
    /\ pc = "exit"
    /\ invname = "taskfql"
    /\ zero
    /\ Cardinality(items) > 1
    /\ stdout = <<MultiUuid>>

-----------------------------------------------------------------------------
(* The time ledger behind timew: the calls of the hook that change it.    *)
(* Only one interval is active at a time, and it is interval 1; starting  *)
(* an interval ends the active one and moves every id up by one.          *)

\* an interval as timew.export() lists it: 'end' is absent while active
Ival(id, tags, ended) ==
    [k \in {"id", "tags"} \cup (IF ended THEN {"end"} ELSE {}) |->
        CASE k = "id" -> id
          [] k = "tags" -> tags
          [] k = "end" -> <<"T", "9">>]

\* timew.stop()
TimewStop(l) ==
    [n \in 1..Len(l) |->
        IF l[n]["id"] = 1 THEN Ival(1, l[n]["tags"], TRUE) ELSE l[n]]

\* timew.start(tags=tags)
TimewStart(l, tags) ==
    <<Ival(1, tags, FALSE)>>
        \o [n \in 1..Len(l) |-> Ival(l[n]["id"] + 1, l[n]["tags"], TRUE)]

\* a variant of TimewCont that leaves the ledger as it is
TimewCont_same(l) == l

\* timew.cont(1): a new interval with the tags of interval 1
TimewCont(l) ==
    TimewStart(l, l[CHOOSE n \in 1..Len(l) : l[n]["id"] = 1]["tags"])

\* the elements of seq that are / are not in the set S, in seq's order
Within(seq, S) == LET In(t) == t \in S IN SelectSeq(seq, In)
Without(seq, S) == LET Out(t) == t \notin S IN SelectSeq(seq, Out)

\* timew.tag(id, tags) and timew.untag(id, tags)
TimewTag(l, id, tags) ==
    [n \in 1..Len(l) |->
        IF l[n]["id"] = id
        THEN Ival(id, l[n]["tags"] \o Without(tags, Range(l[n]["tags"])),
                  "end" \in DOMAIN l[n])
        ELSE l[n]]
TimewUntag(l, id, tags) ==
    [n \in 1..Len(l) |->
        IF l[n]["id"] = id
        THEN Ival(id, Without(l[n]["tags"], Range(tags)), "end" \in DOMAIN l[n])
        ELSE l[n]]

-----------------------------------------------------------------------------
(* on_modify_timew (src/task.py:853-931) and what it calls.  A handler    *)
(* step yields a record: ctl ("go" | "bomb" | "exit"), ledger, the ledger *)
(* after it, ops, the ledger calls it issued, out, the lines it printed,  *)
(* and now, the value of nowcache after it.                               *)

\* one ledger call, as logged in ops
Op(name, id, tags) == [run |-> run, op |-> name, id |-> id, tags |-> tags]

\* one printed line: the JSON of a task, or a message
Line(kind) == [line |-> kind, val |-> {}]
\* a variant of jdumps that leaves the tags out
jdumps_notags(task) ==
    [line |-> "json", val |-> {<<k, task[k]>> : k \in DOMAIN task \ {"tags"}}]

\* jdumps(task): the JSON object, as its set of key/value members
jdumps(task) == [line |-> "json", val |-> {<<k, task[k]>> : k \in DOMAIN task}]

\* a step that did nothing
Quiet == [ctl |-> "go", ledger |-> ledger, ops |-> <<>>, out |-> <<>>,
          now |-> nowcache]

\* src/task.py:283-296: nowcache once _tasknow has returned r
NowCache(r) ==
    [k \in {"fql", "active"} |-> IF k = "fql" THEN r.fql ELSE r.active]

\* a variant of Refuses that lets an ended task through
Refuses_startonly(task) == Falsy(getitem(task, "start"))

\* src/task.py:247-248: the tasks that _taskdo bombs on
Refuses(task) ==
    ~Falsy(getitem(task, "end")) \/ Falsy(getitem(task, "start"))

\* a variant of _taskdo that never looks at what the ledger is tracking
_taskdo_blind(task) ==
    IF Refuses(task) \/ ~_tasknow.ok
    THEN [Quiet EXCEPT !.ctl = "bomb"]
    ELSE [ctl |-> "go", ledger |-> TimewStart(ledger, _timewtags(task)),
          ops |-> <<Op("start", 0, _timewtags(task))>>,
          out |-> <<Line("timewtags"), Line("timew")>>,
          now |-> NowCache(_tasknow)]

\* a variant of _taskdo that starts the interval before it looks at the
\* task's start and end
_taskdo_late(task) ==
    IF Refuses(task)
    THEN [ctl |-> "bomb", ledger |-> TimewStart(ledger, _timewtags(task)),
          ops |-> <<Op("start", 0, _timewtags(task))>>, out |-> <<>>,
          now |-> nowcache]
    ELSE _taskdo_blind(task)

\* src/task.py:245-268
_taskdo(task) ==
    LET now == _tasknow
        rqfql == __taskfql(task, FALSE)
        tags == _timewtags(task)
    IN  IF Refuses(task) THEN [Quiet EXCEPT !.ctl = "bomb"]
        ELSE IF ~now.ok THEN [Quiet EXCEPT !.ctl = "bomb"]
        ELSE IF now.fql = rqfql
        THEN IF now.active
             THEN [Quiet EXCEPT !.out = <<Line("already")>>,
                                !.now = NowCache(now)]
             ELSE [ctl |-> "go", ledger |-> TimewCont(ledger),
                   ops |-> <<Op("continue", 1, <<>>)>>,
                   out |-> <<Line("timew")>>, now |-> NowCache(now)]
        ELSE [ctl |-> "go", ledger |-> TimewStart(ledger, tags),
              ops |-> <<Op("start", 0, tags)>>,
              out |-> <<Line("timewtags"), Line("timew")>>,
              now |-> NowCache(now)]

\* a variant of _taskstop that does not ask whether interval 1 is running
_taskstop_ended(task) ==
    LET now == _tasknow IN
    IF ~now.ok THEN [Quiet EXCEPT !.ctl = "bomb"]
    ELSE IF __taskfql(task, FALSE) = now.fql
    THEN [ctl |-> "go", ledger |-> TimewStop(ledger),
          ops |-> <<Op("stop", 1, <<>>)>>, out |-> <<>>,
          now |-> NowCache(now)]
    ELSE [Quiet EXCEPT !.out = <<Line("stopped")>>, !.now = NowCache(now)]

\* a variant of _taskstop that stops whatever interval is running
_taskstop_any(task) ==
    LET now == _tasknow IN
    IF ~now.ok THEN [Quiet EXCEPT !.ctl = "bomb"]
    ELSE IF now.active
    THEN [ctl |-> "go", ledger |-> TimewStop(ledger),
          ops |-> <<Op("stop", 1, <<>>)>>, out |-> <<>>,
          now |-> NowCache(now)]
    ELSE [Quiet EXCEPT !.out = <<Line("stopped")>>, !.now = NowCache(now)]

\* src/task.py:537-558, called with a task (from the hook)
_taskstop(task) ==
    LET now == _tasknow IN
    IF ~now.ok THEN [Quiet EXCEPT !.ctl = "bomb"]
    ELSE IF now.active /\ __taskfql(task, FALSE) = now.fql
    THEN [ctl |-> "go", ledger |-> TimewStop(ledger),
          ops |-> <<Op("stop", 1, <<>>)>>, out |-> <<>>,
          now |-> NowCache(now)]
    ELSE [Quiet EXCEPT !.out = <<Line("stopped")>>, !.now = NowCache(now)]

\* src/task.py:893-896: the keys whose value differs between old and new
changed == {k \in DOMAIN old \cap DOMAIN new : old[k] # new[k]}

\* a variant of TimekeysCheck that looks at start alone
TimekeysCheck_startonly(r) ==
    IF DOMAIN old \cap {"start", "end"} # {} /\ changed \cap {"start"} # {}
    THEN [r EXCEPT !.ctl = "bomb"]
    ELSE r

\* src/task.py:912-916: no edit of the time fields of a task that has them
TimekeysCheck(r) ==
    LET timekeys == {"start", "end"} IN
    IF DOMAIN old \cap timekeys # {} /\ changed \cap timekeys # {}
    THEN [r EXCEPT !.ctl = "bomb"]
    ELSE r

\* a variant of PauseCheck that lets a pause through
PauseCheck_allow(r) == r

\* src/task.py:923-925: no pause
PauseCheck(r) ==
    IF "end" \notin DOMAIN new
    THEN [r EXCEPT !.ctl = "exit", !.out = @ \o <<Line("pause")>>]
    ELSE r

\* a variant of Transition that stops the ledger for every new end
Transition_endstops ==
    IF "start" \in DOMAIN new
    THEN LET r == IF "start" \notin DOMAIN old THEN _taskdo(new) ELSE Quiet
         IN  IF r.ctl = "bomb" THEN r ELSE TimekeysCheck(r)
    ELSE IF "end" \in DOMAIN new /\ "end" \notin DOMAIN old
    THEN _taskstop(new)
    ELSE IF "start" \in DOMAIN old THEN PauseCheck(Quiet)
    ELSE Quiet

\* src/task.py:907-925: the start/stop decision
Transition ==
    IF "start" \in DOMAIN new
    THEN LET r == IF "start" \notin DOMAIN old THEN _taskdo(new) ELSE Quiet
         IN  IF r.ctl = "bomb" THEN r ELSE TimekeysCheck(r)
    ELSE IF "start" \in DOMAIN old
    THEN LET r == IF "end" \in DOMAIN new /\ "end" \notin DOMAIN old
                  THEN _taskstop(new) ELSE Quiet
         IN  IF r.ctl = "bomb" THEN r ELSE PauseCheck(r)
    ELSE Quiet

\* a variant of retimew_adds that adds every tag of the new task
retimew_adds_all(oldtask, newtask) == _timewtags(newtask)

\* src/task.py:862-870: adds and removes, as lists in the order of
\* _timewtags (the source lists them in the order a python set iterates)
retimew_adds(oldtask, newtask) ==
    Without(_timewtags(newtask), Range(_timewtags(oldtask)))
retimew_removes(oldtask, newtask) ==
    Without(_timewtags(oldtask), Range(_timewtags(newtask)))

\* src/task.py:872-878: timew.tag and timew.untag on each of ids
\* an export that lists every interval of the ledger: one of the outcomes
\* for tags=[None], and a variant of timewids
timewids_all(l, fql) == [n \in 1..Len(l) |-> l[n]["id"]]

\* src/task.py:855-856 for an fql that is a string
timewids(l, fql) ==
    LET carrying == {n \in 1..Len(l) : fql \in Range(l[n]["tags"])}
        order == Ascending(carrying)
    IN  [j \in 1..Len(order) |-> l[order[j]]["id"]]

\* src/task.py:872-875: the tag and untag calls on each of ids, in order
RECURSIVE RetagCalls(_, _, _)
RetagCalls(ids, adds, removes) ==
    IF Len(ids) = 0 THEN <<>>
    ELSE (IF adds # <<>> THEN <<Op("tag", Head(ids), adds)>> ELSE <<>>)
         \o (IF removes # <<>> THEN <<Op("untag", Head(ids), removes)>>
             ELSE <<>>)
         \o RetagCalls(Tail(ids), adds, removes)

\* the ledger after the calls, all of which went well
RECURSIVE ApplyCalls(_, _)
ApplyCalls(l, calls) ==
    IF Len(calls) = 0 THEN l
    ELSE LET o == Head(calls)
         IN  ApplyCalls(IF o.op = "tag" THEN TimewTag(l, o.id, o.tags)
                        ELSE TimewUntag(l, o.id, o.tags),
                        Tail(calls))

\* a variant of retimew that gives up without a word when a call fails
retimew_silent(calls, k) ==
    IF k = Len(calls)
    THEN [ctl |-> "go", ledger |-> ApplyCalls(ledger, calls), ops |-> calls,
          out |-> <<>>, now |-> nowcache]
    ELSE [ctl |-> "go", ledger |-> ApplyCalls(ledger, SubSeq(calls, 1, k)),
          ops |-> SubSeq(calls, 1, k + 1), out |-> <<>>, now |-> nowcache]

\* src/task.py:872-878: the first k calls go well; when k is not the last,
\* call k + 1 raises TimeWarriorError, which is reported and raised again
retimew(calls, k) ==
    IF k = Len(calls)
    THEN [ctl |-> "go", ledger |-> ApplyCalls(ledger, calls), ops |-> calls,
          out |-> <<>>, now |-> nowcache]
    ELSE [ctl |-> "raise", ledger |-> ApplyCalls(ledger, SubSeq(calls, 1, k)),
          ops |-> SubSeq(calls, 1, k + 1), out |-> <<Line("returned")>>,
          now |-> nowcache]

-----------------------------------------------------------------------------
(* Inputs of the hook *)

MaxRuns == 2        \* most invocations of the hook in a row

Stamps == {<<"T", "0">>, <<"T", "1">>}

\* a task as the hook reads it from a line of JSON
HookTask(start, end, prj, label, tags) ==
    LET d == Dict(prj, label, tags)
        times == [k \in (IF start = None THEN {} ELSE {"start"})
                        \cup (IF end = None THEN {} ELSE {"end"}) |->
                    IF k = "start" THEN start ELSE end]
    IN  DictUpdate(d, times)

HookTasks ==
    {HookTask(s, e, p, l, t) :
        s \in Stamps \cup {None}, e \in Stamps \cup {None},
        p \in {None, <<"p">>, <<"q">>}, l \in {None, <<"x", "y">>},
        t \in {None, << <<"t">> >>}}

SyncLedgers ==
    {<<>>,
     <<Ival(1, << <<"p", "/">>, <<"p", "/", "x", "y">> >>, FALSE)>>,
     <<Ival(1, << <<"p", "/">>, <<"p", "/", "x", "y">> >>, TRUE),
       Ival(2, << <<"p", "/">>, <<"p", "/", "x", "y">>, <<"+", "t">>, <<"n">> >>,
            TRUE)>>,
     <<Ival(1, << <<"+", "t">> >>, FALSE)>>,
     <<Ival(1, << <<"q", "/", "x", "y">>, <<"p", "/", "x", "y">> >>, FALSE)>>}

\* a process started as the on-modify hook, with old and new on its input
SInit ==
    /\ old \in HookTasks
    /\ new \in HookTasks
    /\ ledger \in SyncLedgers
    /\ ops = <<>>
    /\ run = 1
    /\ before = <<ledger>>
    /\ invname = "on_modify_timew"
    /\ pc = "hook"
    /\ nowcache = EmptyDict
    /\ stdout = <<>>
    /\ exit = "running"
    /\ store = <<>>
    /\ cli = {}
    /\ argv = <<>>
    /\ taskargs = <<>>
    /\ tagfilters = EmptyDict
    /\ ti = 1
    /\ ran = FALSE
    /\ tasks = {}
    /\ firstmatch = FirstNone
    /\ queries = <<>>
    /\ tried = {}
    /\ items = {}
    /\ getcache = EmptyDict
    /\ FIdle

\* what no step of the hook touches
HookFrame ==
    /\ UNCHANGED <<store, invname, cli, argv, taskargs, tagfilters, ti, ran,
                   tasks, firstmatch, queries, tried, items, getcache>>
    /\ UNCHANGED fvars

\* src/task.py:907-925
hook_transition ==
    /\ pc = "hook"
    /\ LET r == Transition IN
       /\ ledger' = r.ledger
       /\ ops' = ops \o r.ops
       /\ stdout' = stdout \o r.out
       /\ nowcache' = r.now
       /\ IF r.ctl = "go"
          THEN pc' = "retimew" /\ UNCHANGED exit
          ELSE Bomb
    /\ UNCHANGED <<old, new, run, before>>
    /\ HookFrame

\* a variant of Reconciles without the test of the old label
Reconciles_nolabel == Range(_timewtags(old)) # Range(_timewtags(new))

\* src/task.py:927-928: the sync tags differ and old has a label
Reconciles ==
    /\ Range(_timewtags(old)) # Range(_timewtags(new))
    /\ ~Falsy(getitem(old, "label"))

\* src/task.py:927-929; timew.export(tags=[None]), for an old task with a
\* label and no project, raises, lists nothing or lists every interval;
\* any tag or untag call may fail
hook_retimew ==
    /\ pc = "retimew"
    /\ IF Reconciles
       THEN LET fql == __taskfql(old, FALSE)
                idlists == IF fql = None
                           THEN {<<>>, timewids_all(ledger, fql)}
                           ELSE {timewids(ledger, fql)}
            IN
            \/ /\ fql = None
               /\ pc' = "exit" /\ exit' = "exception"
               /\ UNCHANGED <<ledger, ops, stdout>>
            \/ \E ids \in idlists :
                 LET calls == RetagCalls(ids, retimew_adds(old, new),
                                         retimew_removes(old, new))
                 IN  \E k \in 0..Len(calls) :
                       LET r == retimew(calls, k) IN
                       /\ ledger' = r.ledger
                       /\ ops' = ops \o r.ops
                       /\ stdout' = stdout \o r.out
                       /\ IF r.ctl = "go"
                          THEN pc' = "emit" /\ UNCHANGED exit
                          ELSE pc' = "exit" /\ exit' = "exception"
       ELSE pc' = "emit" /\ UNCHANGED <<ledger, ops, exit, stdout>>
    /\ UNCHANGED <<old, new, run, before, nowcache>>
    /\ HookFrame

\* src/task.py:931 and 944-949: print(jdumps(new)), sys.exit(EXIT_SUCCESS)
hook_emit ==
    /\ pc = "emit"
    /\ stdout' = Append(stdout, jdumps(new))
    /\ exit' = "EXIT_SUCCESS"
    /\ pc' = "exit"
    /\ UNCHANGED <<old, new, run, before, ledger, ops, nowcache>>
    /\ HookFrame

\* the same modification handed to the hook once more, in a new process
hook_again ==
    /\ pc = "exit"
    /\ run < MaxRuns
    /\ run' = run + 1
    /\ before' = Append(before, ledger)
    /\ nowcache' = EmptyDict
    /\ stdout' = <<>>
    /\ exit' = "running"
    /\ pc' = "hook"
    /\ UNCHANGED <<old, new, ledger, ops>>
    /\ HookFrame

SNext == hook_transition \/ hook_retimew \/ hook_emit \/ hook_again

SpecSync == SInit /\ [][SNext]_vars

-----------------------------------------------------------------------------
(* Properties of the on-modify hook, under SpecSync *)

\* the ledger calls of the running invocation, in the order issued
RunOps == LET Mine(o) == o.run = run IN SelectSeq(ops, Mine)
OpNames(os) == {os[j].op : j \in 1..Len(os)}
\* the transition step of the running invocation is over
Decided == pc \in {"retimew", "emit", "exit"}
\* the positions of stdout that hold the JSON of a task
Emissions == {j \in 1..Len(stdout) : stdout[j].line = "json"}
Said(kind) == \E j \in 1..Len(stdout) : stdout[j].line = kind
\* interval 1 of a ledger (as a set: empty when there is none), the
\* FQL-shaped tags it carries, and whether it is running
Current(l) == {l[n] : n \in {m \in 1..Len(l) : l[m]["id"] = 1}}
FqlTags(l) == {t \in UNION {Range(i["tags"]) : i \in Current(l)} : isfql(t)}
Running(l) == \E i \in Current(l) : "end" \notin DOMAIN i
\* the sync tag sets of the event
OldTags == Range(_timewtags(old))
NewTags == Range(_timewtags(new))

\* C11: in retimew, adds is the new sync tags less the old ones and removes
\* the old ones less the new ones; the two are disjoint, a tag of both old
\* and new is in neither, (old + adds) - removes is new, and these are the
\* tags that the tag and untag calls of the hook carry.
C11_AddsRemoves ==
    LET adds == Range(retimew_adds(old, new))
        removes == Range(retimew_removes(old, new))
    IN  /\ adds = NewTags \ OldTags
        /\ removes = OldTags \ NewTags
        /\ adds \cap removes = {}
        /\ (OldTags \cap NewTags) \cap (adds \cup removes) = {}
        /\ (OldTags \cup adds) \ removes = NewTags
        /\ \A j \in 1..Len(ops) :
              /\ ops[j].op = "tag" => Range(ops[j].tags) = NewTags \ OldTags
              /\ ops[j].op = "untag" => Range(ops[j].tags) = OldTags \ NewTags

\* retimew has tagged and untagged an interval, and old and new share a tag
C11_Witness ==
    /\ pc = "emit"
    /\ {"tag", "untag"} \subseteq OpNames(RunOps)
    /\ OldTags \cap NewTags # {}

\* the FQL that the tracker reads off a ledger: the first FQL-shaped tag
\* of interval 1, None when there is none
TrackedFql(l) ==
    IF FqlTags(l) = {} THEN None
    ELSE LET tags == (CHOOSE i \in Current(l) : TRUE)["tags"]
             at == CHOOSE j \in 1..Len(tags) :
                      /\ isfql(tags[j])
                      /\ \A m \in 1..(j - 1) : ~isfql(tags[m])
         IN  tags[at]
\* the ledger calls that start or end an interval
Clocking == {"start", "continue", "stop"}
\* the event ends a started task: start goes away and end appears
Ending ==
    /\ "start" \in DOMAIN old /\ "start" \notin DOMAIN new
    /\ "end" \notin DOMAIN old /\ "end" \in DOMAIN new
\* the event adds end to a started task and keeps its start
EndAddedStartKept ==
    /\ "start" \in DOMAIN old /\ "start" \in DOMAIN new
    /\ old["start"] = new["start"]
    /\ "end" \notin DOMAIN old /\ "end" \in DOMAIN new

\* C12 (as the code has it): the hook stops the ledger for an event in
\* which old has start and new has end and no start.  Then, if interval 1
\* is running and its FQL is the task's, the first ledger call is a stop
\* and interval 1 is ended; if interval 1 has ended or its FQL differs, no
\* start, continue or stop is issued and the hook says that the task was
\* already stopped; if there is no interval 1 with an FQL, the hook fails
\* without a ledger call.  An event whose new keeps start and gains end
\* issues no start, continue or stop, whatever the ledger holds.
C12_StopWhenStartDropped ==
    LET b == before[run] IN
    /\ (Ending /\ Decided) =>
          IF TrackedFql(b) = None
          THEN exit = "EXIT_FAILURE" /\ RunOps = <<>> /\ ledger = b
          ELSE IF Running(b) /\ TrackedFql(b) = __taskfql(new, FALSE)
          THEN /\ RunOps # <<>> /\ RunOps[1].op = "stop"
               /\ OpNames(RunOps) \cap Clocking = {"stop"}
               /\ ~Running(ledger)
          ELSE /\ OpNames(RunOps) \cap Clocking = {}
               /\ Said("stopped")
               /\ Running(ledger) = Running(b)
    /\ (EndAddedStartKept /\ Decided) => OpNames(RunOps) \cap Clocking = {}

\* a started task has ended and the hook has stopped the running interval
C12_Witness ==
    /\ Ending /\ pc = "exit" /\ exit = "EXIT_SUCCESS"
    /\ Running(before[run]) /\ ~Running(ledger)
    /\ OpNames(RunOps) \cap Clocking = {"stop"}

\* C12 (as stated): when old has start T0 and new has the same start plus a
\* new end, and interval 1 is running with the task's FQL, the hook issues
\* a ledger stop.
C12_StopWhenEndAdded ==
    (/\ EndAddedStartKept /\ Decided
     /\ Running(before[run])
     /\ TrackedFql(before[run]) = __taskfql(new, FALSE))
        => "stop" \in OpNames(RunOps)

\* C13: when old has no label and no start (a creation, where old is
\* empty, is the case in point) and new has no start, the hook issues no
\* ledger call of any kind, leaves the ledger as it found it, and ends
\* well having printed new and nothing else, even when the tags of new
\* make its sync tags differ from those of old.
C13_CreationNoLedger ==
    (/\ Falsy(getitem(old, "label"))
     /\ "start" \notin DOMAIN old
     /\ "start" \notin DOMAIN new)
        => /\ RunOps = <<>>
           /\ ledger = before[run]
           /\ exit \in {"running", "EXIT_SUCCESS"}
           /\ pc = "exit" => exit = "EXIT_SUCCESS" /\ stdout = <<jdumps(new)>>

\* a task was created with tags and without start while the ledger held
\* intervals, and the hook has ended
C13_Witness ==
    /\ old = EmptyDict
    /\ "start" \notin DOMAIN new /\ "tags" \in DOMAIN new
    /\ NewTags # OldTags
    /\ ledger # <<>>
    /\ pc = "exit" /\ stdout = <<jdumps(new)>>

\* the event starts a task: _taskdo runs on new, which has no end
Starting ==
    /\ "start" \in DOMAIN new /\ "start" \notin DOMAIN old
    /\ "end" \notin DOMAIN new
\* interval 1 of l is running and the tracker reads the FQL of new off it
TrackingNew(l) == Running(l) /\ TrackedFql(l) = __taskfql(new, FALSE)

\* C14: when the first of two invocations in a row finds interval 1
\* running with the FQL of the task, _taskdo says "already" in both of
\* them, issues no ledger call, and leaves the ledger as the invocation
\* found it, so that interval 1 is still running with that FQL.
C14_AlreadyTwice ==
    (Starting /\ TrackingNew(before[1]) /\ pc = "retimew")
        => /\ Said("already")
           /\ RunOps = <<>>
           /\ ledger = before[run]
           /\ TrackingNew(ledger)

\* _taskdo has just returned in the second invocation for a task that the
\* ledger was tracking before the first
C14_Witness ==
    /\ Starting /\ TrackingNew(before[1])
    /\ run = 2 /\ pc = "retimew" /\ Said("already")

\* the fields of the running event's new task, as key/value pairs
NewFields == {<<k, new[k]>> : k \in DOMAIN new}

\* C15 (as the code has it): an invocation prints the JSON of a task at
\* most once; one that ends well has printed it exactly once, as its last
\* line, with the fields of new and no others; one that ends in failure
\* or in an exception has not printed it.
C15_EmitsUnlessRejected ==
    /\ Cardinality(Emissions) <= 1
    /\ \A j \in Emissions : stdout[j].val = NewFields
    /\ pc = "exit" =>
          IF exit = "EXIT_SUCCESS"
          THEN Emissions = {Len(stdout)}
          ELSE Emissions = {}

\* an invocation has ended well after _taskdo printed lines of its own
\* ahead of the JSON of new
C15_Witness ==
    /\ pc = "exit" /\ exit = "EXIT_SUCCESS"
    /\ Len(stdout) > 1 /\ Emissions = {Len(stdout)}
    /\ "tags" \in DOMAIN new

\* C15 (as stated): every invocation ends having printed new once.
C15_AlwaysEmits == pc = "exit" => Cardinality(Emissions) = 1

\* the invocation was refused: it has ended in failure without a ledger
\* call, with the ledger as it found it, and has not printed new
Rejected ==
    /\ pc = "exit" /\ exit = "EXIT_FAILURE"
    /\ RunOps = <<>> /\ ledger = before[run]
    /\ Emissions = {}

\* the event takes start off a started task and sets no end
Pause ==
    /\ "start" \in DOMAIN old
    /\ "start" \notin DOMAIN new /\ "end" \notin DOMAIN new

\* C16: a pause (old has start, new has neither start nor end) is refused:
\* the process says so and exits with the failure status, no ledger call
\* is issued and new is not printed.
C16_PauseRejected == (Pause /\ Decided) => (Rejected /\ Said("pause"))

\* a pause was refused while the ledger was tracking the task
C16_Witness ==
    /\ Pause /\ pc = "exit" /\ Said("pause")
    /\ Running(before[run]) /\ TrackedFql(before[run]) = __taskfql(old, FALSE)

\* the event starts a task that had ended: old has end and no start
Restart ==
    /\ "end" \in DOMAIN old /\ "start" \notin DOMAIN old
    /\ "start" \in DOMAIN new

\* C17 (as the code has it): a start of a task that had ended is refused,
\* without a ledger call, when new still has end.  When new has dropped
\* end it is handled as any other start: refused when interval 1 is
\* missing or has no FQL, an "already" without a start or continue when
\* the ledger is tracking the task, and otherwise a continue (interval 1
\* ended, with the FQL of the task) or a start as the first ledger call.
C17_RestartRejectedIfEndKept ==
    LET b == before[run] IN
    (Restart /\ Decided) =>
        IF "end" \in DOMAIN new \/ TrackedFql(b) = None THEN Rejected
        ELSE /\ exit # "EXIT_FAILURE"
             /\ IF TrackingNew(b) THEN OpNames(RunOps) \cap Clocking = {}
                ELSE /\ RunOps # <<>>
                     /\ RunOps[1].op =
                           IF TrackedFql(b) = __taskfql(new, FALSE)
                           THEN "continue" ELSE "start"
                     /\ Running(ledger)

\* a task that had ended was started with its end still set, and refused
C17_Witness ==
    /\ Restart /\ "end" \in DOMAIN new
    /\ pc = "exit" /\ exit = "EXIT_FAILURE"
    /\ TrackedFql(before[run]) # None

\* C17 (as stated): a start of a task that had ended is refused and no
\* interval is started or continued, whether new keeps end or not.
C17_RestartRejected ==
    (Restart /\ Decided) =>
        /\ exit = "EXIT_FAILURE"
        /\ OpNames(RunOps) \cap {"start", "continue"} = {}

\* the event edits start or end of a started task: both old and new have
\* start, and start or end is in both with different values
TimeEdit ==
    /\ "start" \in DOMAIN old /\ "start" \in DOMAIN new
    /\ \E k \in {"start", "end"} :
          k \in DOMAIN old /\ k \in DOMAIN new /\ old[k] # new[k]

\* C18: an event in which old and new both have start and the value of
\* start or of end is not the same in the two ends in a fatal error, with
\* no ledger call and without new being printed.
C18_TimeEditRejected == (TimeEdit /\ Decided) => Rejected

\* an edit of end alone was refused while the ledger held intervals
C18_Witness ==
    /\ TimeEdit /\ old["start"] = new["start"]
    /\ pc = "exit" /\ exit = "EXIT_FAILURE"
    /\ ledger # <<>>

\* the running invocation has called _tasknow: from _taskdo on a task it
\* does not refuse, or from _taskstop
Consulted ==
    /\ Decided
    /\ \/ "start" \in DOMAIN new /\ "start" \notin DOMAIN old /\ ~Refuses(new)
       \/ Ending

-----------------------------------------------------------------------------
(* Properties of tag words, under SpecTags *)

\* the tags that the words of the form c-tag name: every word, and only
\* the words that reach _taskget
WordTags(words, c) ==
    {Tail(words[j]) : j \in {m \in 1..Len(words) :
                                Len(words[m]) > 1 /\ words[m][1] = c
                                /\ words[m] # <<"-", "-">>}}
\* the tasks of the store in the result of _taskget
ResultTasks == {store[t.idx] : t \in {i \in items : i.idx # 0}}

\* C20 (for the words that reach _taskget): every task of the result, the
\* dummy task of --zero aside, has each tag that a +tag token names and
\* none that a -tag token names; no tier is asked for a token that starts
\* with '+' or '-', and every query made carries the tag filters.
C20_TokensFilter ==
    pc \in {"returned", "exit"} =>
        /\ \A t \in ResultTasks :
              /\ WordTags(Taskargs, "+") \subseteq t.tags
              /\ WordTags(Taskargs, "-") \cap t.tags = {}
        /\ \A j \in 1..Len(taskargs) : taskargs[j][1] \notin {"+", "-"}

\* C20 (for the words of the command line): every task of the result has
\* each tag that a +tag word names and none that a -tag word names.
C20_WordsFilter ==
    pc \in {"returned", "exit"} =>
        \A t \in ResultTasks :
            /\ WordTags(argv, "+") \subseteq t.tags
            /\ WordTags(argv, "-") \cap t.tags = {}

\* taskget xy -t has returned a task that has the tag t
C20_Reached ==
    /\ pc = "returned"
    /\ argv = << <<"x", "y">>, <<"-", "t">> >>
    /\ \E t \in ResultTasks : <<"t">> \in t.tags

-----------------------------------------------------------------------------
(* Properties of the start and stop paths, under SpecSync *)

\* the hook calls _taskdo on new
Does == "start" \in DOMAIN new /\ "start" \notin DOMAIN old

\* C21 (as stated): a start, through _taskdo, of a task from which no FQL
\* can be derived (no project or no label) ends in failure, and no ledger
\* start or continue is issued.
C21_NoFqlStartFatal ==
    (Does /\ ~Refuses(new) /\ __taskfql(new, FALSE) = None /\ Decided)
        => /\ exit = "EXIT_FAILURE"
           /\ OpNames(RunOps) \cap {"start", "continue"} = {}

\* a task without a label was started while the ledger was tracking
\* another: interval 1 is now one without an FQL-shaped tag
C21_Reached ==
    /\ Does /\ "label" \notin DOMAIN new /\ pc = "exit"
    /\ TrackedFql(before[run]) # None
    /\ "start" \in OpNames(RunOps)
    /\ FqlTags(ledger) = {}

\* the event sets end on a task that has no start, before or after
EndsUnstarted ==
    /\ "start" \notin DOMAIN old /\ "start" \notin DOMAIN new
    /\ "end" \in DOMAIN new

\* C22: when old has no start and new has end and no start, the hook
\* issues no ledger start, stop or continue: the ledger keeps its
\* intervals, whether running or ended, and the hook does not fail.
C22_EndWithoutStart ==
    EndsUnstarted =>
        /\ OpNames(RunOps) \cap Clocking = {}
        /\ Len(ledger) = Len(before[run])
        /\ Running(ledger) = Running(before[run])
        /\ exit # "EXIT_FAILURE"

\* a task that never started was ended while the ledger was tracking it
C22_Witness ==
    /\ EndsUnstarted /\ "end" \notin DOMAIN old
    /\ pc = "exit" /\ exit = "EXIT_SUCCESS"
    /\ TrackingNew(before[run]) /\ Running(ledger)

\* C23 (as the code has it): _taskdo ends in failure, with no ledger call,
\* for a task with end or without start, and also when there is no
\* interval 1 with an FQL-shaped tag.  Otherwise it does one of three
\* things: nothing when the tracked FQL is the FQL of the task and
\* interval 1 is running; one continue, after which interval 1 runs with
\* that FQL, when the tracked FQL is the FQL of the task and interval 1
\* has ended; else one start, after which interval 1 runs with exactly
\* the sync tags of the task.
C23_TaskdoByTracker ==
    LET b == before[run]
        same == TrackedFql(b) = __taskfql(new, FALSE)
    IN
    (Does /\ Decided) =>
        IF Refuses(new) \/ TrackedFql(b) = None THEN Rejected
        ELSE pc = "retimew" =>
            IF same /\ Running(b) THEN RunOps = <<>> /\ ledger = b
            ELSE IF same
            THEN /\ Len(RunOps) = 1 /\ RunOps[1].op = "continue"
                 /\ TrackingNew(ledger)
                 /\ Len(ledger) = Len(b) + 1
            ELSE /\ Len(RunOps) = 1 /\ RunOps[1].op = "start"
                 /\ RunOps[1].tags = _timewtags(new)
                 /\ Running(ledger)
                 /\ \A i \in Current(ledger) : i["tags"] = _timewtags(new)
                 /\ Len(ledger) = Len(b) + 1

\* _taskdo has continued an ended interval 1 that had the FQL of the task
C23_Witness ==
    /\ Does /\ pc = "retimew"
    /\ ~Running(before[run]) /\ TrackingNew(ledger)
    /\ OpNames(RunOps) = {"continue"}

\* C23 (as stated): for a task with start and no end, _taskdo starts a new
\* interval with the sync tags of the task whenever interval 1 does not
\* carry the FQL of the task.
C23_StartOtherwise ==
    (/\ Does /\ ~Refuses(new) /\ Decided
     /\ __taskfql(new, FALSE) \notin FqlTags(before[run]))
        => /\ "start" \in OpNames(RunOps)
           /\ \A j \in 1..Len(RunOps) :
                 RunOps[j].op = "start" => RunOps[j].tags = _timewtags(new)

\* C24: a ledger stop is issued only by the stop path, and only when
\* interval 1 is running and the FQL the tracker reads off it is the FQL
\* of the new task; at most one is issued.  When a started task is ended
\* while interval 1 runs with another FQL, interval 1 is left running.
C24_StopsOnlyOwnInterval ==
    LET b == before[run]
        stops == {j \in 1..Len(RunOps) : RunOps[j].op = "stop"}
    IN  /\ stops # {} =>
              /\ Ending
              /\ Running(b)
              /\ TrackedFql(b) = __taskfql(new, FALSE)
              /\ stops = {1}
        /\ (Ending /\ Decided /\ Running(b) /\ TrackedFql(b) # None
            /\ TrackedFql(b) # __taskfql(new, FALSE))
              => /\ Running(ledger)
                 /\ Len(ledger) = Len(b)
                 /\ Said("stopped")

\* a started task with an FQL was ended while interval 1 was running for
\* another task, and the hook has ended well
C24_Witness ==
    /\ Ending /\ pc = "exit" /\ exit = "EXIT_SUCCESS"
    /\ __taskfql(new, FALSE) # None
    /\ Running(before[run]) /\ Running(ledger)
    /\ TrackedFql(before[run]) \notin {None, __taskfql(new, FALSE)}

-----------------------------------------------------------------------------
(* Properties of the tag reconciliation, under SpecSync *)

\* the ledger as retimew finds it: the ledger the invocation began with,
\* after the start, continue or stop of the transition step, if any
Pre ==
    LET b == before[run] IN
    IF RunOps = <<>> THEN b
    ELSE CASE RunOps[1].op = "stop" -> TimewStop(b)
           [] RunOps[1].op = "start" -> TimewStart(b, RunOps[1].tags)
           [] RunOps[1].op = "continue" -> TimewCont(b)
           [] OTHER -> b
\* the tag and untag calls of the running invocation
TagOps ==
    LET Tagging(o) == o.op \in {"tag", "untag"} IN SelectSeq(RunOps, Tagging)
\* the ids of the intervals that carry the FQL of old when retimew begins
Carrying ==
    {Pre[n]["id"] : n \in {m \in 1..Len(Pre) :
                             __taskfql(old, FALSE) \in Range(Pre[m]["tags"])}}
\* retimew has returned
Reconciled == pc = "emit" \/ (pc = "exit" /\ exit = "EXIT_SUCCESS")

\* C25: when old has project and label, every tag and untag call is on
\* an interval that carries the FQL of old, tag calls with the tags of
\* adds and untag calls with those of removes.  The intervals keep their
\* number, ids and ends; one that does not carry the FQL of old is left as
\* it was; one that does gains no tag outside adds and loses none outside
\* removes, and once retimew has returned for differing sync tags its
\* tags are its former tags with adds put in and removes taken out.
C25_RetagsOnlyCarrying ==
    LET adds == NewTags \ OldTags
        removes == OldTags \ NewTags
    IN
    (__taskfql(old, FALSE) # None /\ pc \in {"emit", "exit"}) =>
        /\ \A j \in 1..Len(TagOps) :
              /\ TagOps[j].id \in Carrying
              /\ Range(TagOps[j].tags) =
                    IF TagOps[j].op = "tag" THEN adds ELSE removes
        /\ Len(ledger) = Len(Pre)
        /\ \A n \in 1..Len(Pre) :
              LET was == Range(Pre[n]["tags"])
                  is == Range(ledger[n]["tags"])
              IN  /\ ledger[n]["id"] = Pre[n]["id"]
                  /\ DOMAIN ledger[n] = DOMAIN Pre[n]
                  /\ IF Pre[n]["id"] \notin Carrying THEN ledger[n] = Pre[n]
                     ELSE /\ is \ was \subseteq adds
                          /\ was \ is \subseteq removes
                          /\ (Reconciled /\ OldTags # NewTags)
                                => is = (was \cup adds) \ removes

\* retimew has returned after tagging and untagging two intervals, one of
\* which has kept a tag that only the ledger knows, and has left alone an
\* interval that does not carry the FQL of old
C25_Witness ==
    /\ pc = "exit" /\ exit = "EXIT_SUCCESS"
    /\ __taskfql(old, FALSE) # None
    /\ Cardinality(Carrying) = 2
    /\ \E n \in 1..Len(Pre) : Pre[n]["id"] \notin Carrying
    /\ {"tag", "untag"} \subseteq OpNames(TagOps)
    /\ \E n \in 1..Len(ledger) : <<"n">> \in Range(ledger[n]["tags"])

\* a tag or untag call of the running invocation has raised
RetagFailed == pc = "exit" /\ exit = "exception" /\ Said("returned")

\* C26: when a tag or untag call fails, the hook reports it and ends in an
\* exception without printing new; the failing call is the last ledger
\* call of the invocation, and the ledger is as the calls before it left
\* it: the start, continue or stop of the transition step and the tag
\* changes made so far stay.  An invocation that ends in an exception
\* without that report has made no tag or untag call, and one in which
\* retimew has returned has made every call it issued.
C26_RetagFailureStops ==
    /\ Reconciled => ledger = ApplyCalls(Pre, TagOps)
    /\ RetagFailed =>
          /\ Emissions = {}
          /\ TagOps # <<>>
          /\ ledger = ApplyCalls(Pre, SubSeq(TagOps, 1, Len(TagOps) - 1))
          /\ stdout[Len(stdout)].line = "returned"
    /\ (pc = "exit" /\ exit = "exception" /\ ~Said("returned"))
          => TagOps = <<>>

\* a call on the second interval failed after a start and after the tags
\* of the first interval had been changed
C26_Witness ==
    /\ RetagFailed
    /\ "start" \in OpNames(RunOps)
    /\ Len(TagOps) > 1
    /\ TagOps[1].id # TagOps[Len(TagOps)].id
    /\ ledger # Pre
    /\ Cardinality(Carrying) > 1

-----------------------------------------------------------------------------
(* One process that calls _tasknow several times and issues the ledger    *)
(* calls of _taskdo and _taskstop in between.                             *)

MaxCalls == 3       \* most calls of _tasknow, and most ledger calls

\* the calls of _tasknow that have returned, and the ledger calls issued
NowReturns == LET Now(o) == o.line = "now" IN SelectSeq(stdout, Now)
NowExports == LET Exp(o) == o.op = "export" IN SelectSeq(ops, Exp)
NowClocked == LET Clk(o) == o.op # "export" IN SelectSeq(ops, Clk)

NInit ==
    /\ ledger \in SyncLedgers
    /\ invname = "_tasknow"
    /\ pc = "now"
    /\ nowcache = EmptyDict
    /\ stdout = <<>>
    /\ exit = "running"
    /\ ops = <<>>
    /\ run = 1
    /\ before = <<ledger>>
    /\ old = EmptyDict
    /\ new = EmptyDict
    /\ store = <<>>
    /\ cli = {}
    /\ argv = <<>>
    /\ taskargs = <<>>
    /\ tagfilters = EmptyDict
    /\ ti = 1
    /\ ran = FALSE
    /\ tasks = {}
    /\ firstmatch = FirstNone
    /\ queries = <<>>
    /\ tried = {}
    /\ items = {}
    /\ getcache = EmptyDict
    /\ FIdle

\* src/task.py:280-296: one call of _tasknow; the export is made only
\* when nowcache is empty, and the call bombs when the export is no good
now_call ==
    /\ pc = "now"
    /\ Len(NowReturns) < MaxCalls
    /\ LET r == _tasknow IN
       /\ ops' = IF DOMAIN nowcache = {}
                 THEN Append(ops, Op("export", 0, <<>>)) ELSE ops
       /\ IF r.ok
          THEN /\ nowcache' = NowCache(r)
               /\ stdout' = Append(stdout, [line |-> "now",
                                            val |-> <<r.fql, r.active>>])
               /\ UNCHANGED <<pc, exit>>
          ELSE Bomb /\ UNCHANGED <<nowcache, stdout>>
    /\ UNCHANGED <<ledger, old, new, run, before>>
    /\ HookFrame

\* src/task.py:261, 266, 554: timew.cont(1), timew.start(tags=tags) or
\* timew.stop(), as _taskdo and _taskstop issue them, after a first call
\* of _tasknow
now_ledger ==
    /\ pc = "now"
    /\ NowReturns # <<>>
    /\ Len(NowClocked) < MaxCalls
    /\ \/ /\ Running(ledger)
          /\ ledger' = TimewStop(ledger)
          /\ ops' = Append(ops, Op("stop", 1, <<>>))
       \/ /\ Current(ledger) # {}
          /\ ledger' = TimewCont(ledger)
          /\ ops' = Append(ops, Op("continue", 1, <<>>))
       \/ \E tags \in {<<>>, << <<"q", "/">>, <<"q", "/", "x", "y">> >>} :
             /\ ledger' = TimewStart(ledger, tags)
             /\ ops' = Append(ops, Op("start", 0, tags))
    /\ UNCHANGED <<old, new, run, before, nowcache, stdout, pc, exit>>
    /\ HookFrame

NNext == now_call \/ now_ledger

SpecNow == NInit /\ [][NNext]_vars

\* C27: in one process the ledger is exported at most once, by the first
\* call of _tasknow; every call that returns gives the pair that the
\* ledger the process began with yields, whatever ledger calls the
\* process has issued since.
C27_ExportsOnce ==
    /\ Len(NowExports) <= 1
    /\ (NowReturns # <<>> \/ exit = "EXIT_FAILURE") => Len(NowExports) = 1
    /\ \A j \in 1..Len(NowReturns) :
          /\ NowReturns[j].val = NowReturns[1].val
          /\ NowReturns[j].val = <<TrackedFql(before[1]), Running(before[1])>>

\* _tasknow has returned for the second time after the process started an
\* interval for another task: the pair it gave is no longer what the
\* ledger holds
C27_Witness ==
    /\ Len(NowReturns) >= 2
    /\ NowClocked # <<>>
    /\ ops[Len(ops)].op = "start"
    /\ TrackedFql(ledger) # NowReturns[1].val[1]
    /\ TrackedFql(ledger) # None

-----------------------------------------------------------------------------
(* Properties of the options of _taskget, under Spec *)

\* C29 (as stated): under taskid and taskuuid, which hand matchall=False
\* down to _taskget, multi is false whatever the flags of the command
\* line, and so _taskget returns one task at most.
C29_SingleByKeyword ==
    invname \in {"taskid", "taskuuid"} =>
        /\ ~multi
        /\ pc = "returned" => Cardinality(items) <= 1

\* taskid xy, without -o, has got two tasks from _taskget
C29_Reached ==
    /\ invname = "taskid" /\ cli = {} /\ argv = << <<"x", "y">> >>
    /\ pc = "returned" /\ Cardinality(items) = 2
    /\ Kwargs["matchall"] = FALSE

-----------------------------------------------------------------------------
(* Callers that call _taskget several times in one process, and keep or   *)
(* change what it returned                                                *)

MaxGets == 3        \* most _taskget calls in one behaviour

CacheArgs == {<< <<"x", "y">> >>, << <<"+", "t">>, <<"x", "y">> >>,
              << <<"w">> >>}
CacheClis == {{}, {"o"}, {"z"}, {"x"}}

\* the calls that have returned to the caller, as positions of stdout
Gets == {j \in 1..Len(stdout) : stdout[j].line = "got"}

CInit ==
    /\ store = <<tA, tB>>
    /\ ledger = <<>>
    /\ invname = "taskget"
    /\ cli \in CacheClis
    /\ argv \in CacheArgs
    /\ pc = "enter"
    /\ taskargs = <<>>
    /\ tagfilters = EmptyDict
    /\ ti = 1
    /\ ran = FALSE
    /\ tasks = {}
    /\ firstmatch = FirstNone
    /\ queries = <<>>
    /\ tried = {}
    /\ items = {}
    /\ getcache = EmptyDict
    /\ nowcache = EmptyDict
    /\ stdout = <<>>
    /\ exit = "running"
    /\ FIdle
    /\ old = EmptyDict
    /\ new = EmptyDict
    /\ ops = <<>>
    /\ run = 1
    /\ before = <<>>

CallerFrame ==
    /\ UNCHANGED <<store, ledger, invname, nowcache, exit>>
    /\ UNCHANGED fvars
    /\ UNCHANGED <<old, new, ops, before>>

\* tasks = _taskget(*args, **kwargs): the caller has the value; the loop
\* has not run (ran is still False) when the value came from the cache
caller_take ==
    /\ pc = "returned"
    /\ stdout' = Append(stdout,
                        [line |-> "got",
                         val |-> [proc |-> run, key |-> taskkey, cli |-> cli,
                                  items |-> items, hit |-> ~ran]])
    /\ pc' = "held"
    /\ UNCHANGED <<cli, argv, taskargs, tagfilters, ti, ran, tasks,
                   firstmatch, queries, tried, items, getcache, run>>
    /\ CallerFrame

\* src/task.py:155, tasks.pop(): the element leaves the caller's container,
\* and with it every container that is the same object
caller_pop ==
    /\ pc = "held"
    /\ \E e \in items :
         /\ items' = items \ {e}
         /\ getcache' = [k \in DOMAIN getcache |->
                           IF getcache[k].same
                           THEN [getcache[k] EXCEPT !.val = @ \ {e}]
                           ELSE getcache[k]]
         /\ stdout' = Append(stdout, [line |-> "pop", val |-> <<e>>])
    /\ pc' = "used"
    /\ UNCHANGED <<cli, argv, taskargs, tagfilters, ti, ran, tasks,
                   firstmatch, queries, tried, run>>
    /\ CallerFrame

\* task['id'] = ... on a returned task: the task object changes, in the
\* caller's container and in every container that holds the same objects
caller_setfield ==
    /\ pc = "held"
    /\ \E e \in items :
         LET d == [e EXCEPT !.id = 9] IN
         /\ items' = (items \ {e}) \cup {d}
         /\ getcache' = [k \in DOMAIN getcache |->
                           IF getcache[k].shared /\ e \in getcache[k].val
                           THEN [getcache[k] EXCEPT
                                    !.val = (@ \ {e}) \cup {d}]
                           ELSE getcache[k]]
         /\ stdout' = Append(stdout, [line |-> "set", val |-> <<e, d>>])
    /\ pc' = "used"
    /\ UNCHANGED <<cli, argv, taskargs, tagfilters, ti, ran, tasks,
                   firstmatch, queries, tried, run>>
    /\ CallerFrame

\* src/task.py:606-608 and 729-730: the locals of the next _taskget call
NextCall ==
    /\ pc' = "enter"
    /\ taskargs' = <<>>
    /\ tagfilters' = EmptyDict
    /\ ti' = 1
    /\ ran' = FALSE
    /\ tasks' = {}
    /\ firstmatch' = FirstNone
    /\ tried' = {}
    /\ items' = {}
    /\ UNCHANGED <<queries, stdout>>

\* the caller calls _taskget again, in the same process
caller_again ==
    /\ pc \in {"held", "used"}
    /\ Cardinality(Gets) < MaxGets
    /\ cli' \in CacheClis
    /\ argv' \in CacheArgs
    /\ NextCall
    /\ UNCHANGED <<getcache, run>>
    /\ CallerFrame

\* src/task.py:979: the same call as the first one of another process,
\* where the cache is empty
caller_restart ==
    /\ pc \in {"held", "used"}
    /\ Cardinality(Gets) < MaxGets
    /\ UNCHANGED <<cli, argv>>
    /\ NextCall
    /\ getcache' = EmptyDict
    /\ run' = run + 1
    /\ CallerFrame

CNext == taskget_enter \/ taskget_token \/ taskget_return
            \/ caller_take \/ caller_pop \/ caller_setfield
            \/ caller_again \/ caller_restart

SpecCache == CInit /\ [][CNext]_vars

-----------------------------------------------------------------------------
(* Properties of the resolution cache, under SpecCache *)

Got(j) == stdout[j].val

\* calls i and j of one process with the same key, i first
SameKey(i, j) ==
    /\ i \in Gets /\ j \in Gets /\ i < j
    /\ Got(i).proc = Got(j).proc
    /\ Got(i).key = Got(j).key

\* a field of a returned task was changed between positions i and j
SetBetween(i, j) == \E m \in i..j : stdout[m].line = "set"

\* no field of a returned task was ever changed
NoSet == ~SetBetween(1, Len(stdout))

\* C28 (as stated): whatever a caller does to what _taskget returned,
\* removing elements or changing a field of a returned task, a later call
\* with the same key in the same process returns what the earlier one did.
C28_MutationKeepsLater ==
    \A i, j \in Gets : SameKey(i, j) => Got(j).items = Got(i).items

\* C28 (amended): removing elements from what _taskget returned changes
\* nothing in what a later call with the same key returns in the same
\* process; changing a field of a returned task does: the next call with
\* the key returns the task with the changed field.
C28_PopKeepsLater ==
    \A i, j \in Gets :
        /\ SameKey(i, j) /\ ~SetBetween(i, j) =>
              Got(j).items = Got(i).items
        /\ SameKey(i, j) /\ j = i + 2 /\ stdout[i + 1].line = "set" =>
              Got(j).items = (Got(i).items \ {stdout[i + 1].val[1]})
                                 \cup {stdout[i + 1].val[2]}

\* two tasks returned, one popped by the caller, and the next call with
\* the key, answered from the cache, returns the two again
C28_Witness ==
    \E i, j \in Gets :
        /\ SameKey(i, j) /\ j = i + 2 /\ stdout[i + 1].line = "pop"
        /\ Got(j).hit
        /\ Cardinality(Got(i).items) = 2
        /\ Got(j).items = Got(i).items

\* C30 (as stated): a call answered from the cache returns what a call
\* with its tokens, tag filters and options returns when the cache is
\* empty, whatever the options of the earlier calls with its key were.
C30_Transparent ==
    NoSet =>
        \A j, k \in Gets :
            /\ Got(j).hit /\ ~Got(k).hit
            /\ Got(k).key = Got(j).key /\ Got(k).cli = Got(j).cli
            => Got(j).items = Got(k).items

\* C30 (amended): a call answered from the cache returns what the first
\* call of the process with its key returned; that is what the call
\* returns with an empty cache when its options are those of that first
\* call.
C30_TransparentSameOptions ==
    NoSet =>
        \A j \in Gets : Got(j).hit =>
            /\ \E i \in Gets : /\ SameKey(i, j) /\ ~Got(i).hit
                               /\ Got(j).items = Got(i).items
            /\ \A i, k \in Gets :
                   /\ SameKey(i, j) /\ ~Got(i).hit
                   /\ Got(i).cli = Got(j).cli
                   /\ ~Got(k).hit
                   /\ Got(k).key = Got(j).key /\ Got(k).cli = Got(j).cli
                   => Got(j).items = Got(k).items

\* a call answered from the cache with the options of the call that
\* filled it, and the same call run again in another process: the two
\* tasks each time
C30_Witness ==
    /\ NoSet
    /\ \E i, j, k \in Gets :
           /\ SameKey(i, j) /\ ~Got(i).hit /\ Got(j).hit
           /\ Got(i).cli = Got(j).cli
           /\ j < k /\ ~Got(k).hit /\ Got(k).proc # Got(j).proc
           /\ Got(k).key = Got(j).key /\ Got(k).cli = Got(j).cli
           /\ Cardinality(Got(j).items) = 2
           /\ Got(k).items = Got(j).items

\* a call with -o answered from the cache that an earlier call without
\* -o filled: two tasks returned where one is asked for
C30_Reached ==
    /\ NoSet
    /\ \E i, j \in Gets :
           /\ SameKey(i, j) /\ Got(i).cli = {} /\ Got(j).cli = {"o"}
           /\ Got(j).hit /\ Cardinality(Got(j).items) = 2

-----------------------------------------------------------------------------
(* Properties of the terminations of the hook, under SpecSync *)

\* the running invocation has ended by bomb() or sys.exit(EXIT_FAILURE)
Failed == pc = "exit" /\ exit = "EXIT_FAILURE"

\* the reasons for which the hook itself ends an invocation: a pause, a
\* start of a task that carries end, an edit of start or end, and a
\* consulted ledger whose interval 1 is missing or has no FQL-shaped tag
FailReasons ==
    {r \in {"pause", "ended", "timeedit", "tracker"} :
        CASE r = "pause" -> Pause
          [] r = "ended" -> Does /\ "end" \in DOMAIN new
          [] r = "timeedit" -> TimeEdit
          [] r = "tracker" -> Consulted /\ TrackedFql(before[run]) = None}

\* C31: an invocation that the hook itself ends in failure (pause, start
\* of a task that carries end, edit of a time field, interval 1 missing or
\* without an FQL-shaped tag) has issued no call that changes the ledger
\* and the ledger is exactly as the invocation found it;
\* the hook ends an invocation in failure for these reasons only, and
\* always when one of them holds.
C31_FailsBeforeLedger ==
    /\ Failed => /\ RunOps = <<>>
                 /\ ledger = before[run]
                 /\ FailReasons # {}
    /\ (Decided /\ FailReasons # {}) => Failed

\* an end was added to a started task while interval 1 of the ledger had
\* no FQL-shaped tag: the invocation failed in _tasknow, called from
\* _taskstop, with the ledger's interval still there as it was
C31_Witness ==
    /\ Failed /\ FailReasons = {"tracker"} /\ Ending
    /\ ledger # <<>> /\ ledger = before[run]
    /\ run = 2 /\ \E j \in 1..Len(ops) : ops[j].run = 1

-----------------------------------------------------------------------------
(* _taskdo on one started task, and _tasknow in the process that comes    *)
(* next                                                                   *)

\* a process that has a started task to hand to _taskdo
DInit ==
    /\ new \in {DictUpdate(t, [start |-> <<"T", "0">>]) : t \in FqlTasks}
    /\ old = EmptyDict
    /\ ledger \in SyncLedgers
    /\ invname = "taskdo"
    /\ pc = "do"
    /\ nowcache = EmptyDict
    /\ stdout = <<>>
    /\ exit = "running"
    /\ ops = <<>>
    /\ run = 1
    /\ before = <<ledger>>
    /\ store = <<>>
    /\ cli = {}
    /\ argv = <<>>
    /\ taskargs = <<>>
    /\ tagfilters = EmptyDict
    /\ ti = 1
    /\ ran = FALSE
    /\ tasks = {}
    /\ firstmatch = FirstNone
    /\ queries = <<>>
    /\ tried = {}
    /\ items = {}
    /\ getcache = EmptyDict
    /\ FIdle

\* src/task.py:239 and 245-268: _taskdo(task), and the end of the process
do_taskdo ==
    /\ pc = "do"
    /\ LET r == _taskdo(new) IN
       /\ ledger' = r.ledger
       /\ ops' = ops \o r.ops
       /\ stdout' = stdout \o r.out
       /\ nowcache' = r.now
       /\ IF r.ctl = "go"
          THEN pc' = "done" /\ exit' = "EXIT_SUCCESS"
          ELSE Bomb
    /\ UNCHANGED <<old, new, run, before>>
    /\ HookFrame

\* src/task.py:280-296: _tasknow in the next process, where nowcache is
\* empty: the pair it returns, or the bomb
do_tasknow ==
    /\ pc = "done"
    /\ LET r == TasknowExport IN
       /\ run' = run + 1
       /\ before' = Append(before, ledger)
       /\ ops' = Append(ops, [run |-> run + 1, op |-> "export", id |-> 0,
                              tags |-> <<>>])
       /\ IF r.ok
          THEN /\ nowcache' = NowCache(r)
               /\ stdout' = <<[line |-> "now", val |-> <<r.fql, r.active>>]>>
               /\ pc' = "exit" /\ exit' = "EXIT_SUCCESS"
          ELSE /\ nowcache' = EmptyDict
               /\ stdout' = <<>>
               /\ Bomb
    /\ UNCHANGED <<old, new, ledger>>
    /\ HookFrame

DNext == do_taskdo \/ do_tasknow

SpecDo == DInit /\ [][DNext]_vars

-----------------------------------------------------------------------------
(* Properties of the FQL among the sync tags, under SpecDo *)

LabelRe == digits \cup lowercase \cup uppercase \cup {"-", "_"}
Only(s, chars) == \A i \in 1..Len(s) : s[i] \in chars

\* the task has a project and a label, and its project segments, its
\* label and its tags have no character but letters, digits, '-' and '_'
Conforming(task) ==
    /\ ~Falsy(getitem(task, "project")) /\ ~Falsy(getitem(task, "label"))
    /\ \A seg \in Range(split(task["project"], ".")) : Only(seg, LabelRe)
    /\ Only(task["label"], LabelRe)
    /\ "tags" \in DOMAIN task =>
          \A t \in Range(task["tags"]) : Only(t, LabelRe)

\* the last segment of the task's project is the empty string
TrailingDot(task) == task["project"][Len(task["project"])] = "."

\* the positions of the FQL-shaped elements of _timewtags(task)
FqlEntries(task) ==
    {j \in 1..Len(_timewtags(task)) : isfql(_timewtags(task)[j])}

\* exactly one element of _timewtags(task) is FQL-shaped, and it is the
\* FQL of the task
OneFqlEntry(task) ==
    /\ Cardinality(FqlEntries(task)) = 1
    /\ \A j \in FqlEntries(task) :
          _timewtags(task)[j] = __taskfql(task, FALSE)

\* _taskdo has started an interval for new / the next process has read
\* the ledger back through _tasknow
Started == Len(ops) >= 1 /\ ops[1].op = "start"
ReadBack == Started /\ pc = "exit" /\ run = 2

\* C32 (as stated): for every task with project and label whose project
\* segments, label and tags have only letters, digits, '-' and '_',
\* exactly one element of _timewtags(task) is FQL-shaped and it is the
\* task's FQL; after _taskdo has started an interval for the task,
\* _tasknow gives the task's FQL.
C32_OneFqlTag ==
    Conforming(new) =>
        /\ OneFqlEntry(new)
        /\ ReadBack =>
              /\ exit = "EXIT_SUCCESS"
              /\ nowcache["fql"] = __taskfql(new, FALSE)

\* what holds of these tasks: the interval _taskdo starts has the
\* elements of _timewtags(task) as its tags; when the project does not
\* end in '.', one of them is FQL-shaped, the task's FQL, and _tasknow of
\* the next process gives it, with the interval running; when the project
\* ends in '.', none is FQL-shaped and _tasknow of the next process bombs
C32_OneFqlTagUnlessTrailingDot ==
    Conforming(new) =>
        /\ Started => /\ ledger[1]["tags"] = _timewtags(new)
                      /\ ops[1].tags = _timewtags(new)
        /\ IF TrailingDot(new)
           THEN /\ FqlEntries(new) = {}
                /\ ReadBack => exit = "EXIT_FAILURE"
           ELSE /\ OneFqlEntry(new)
                /\ ReadBack =>
                      /\ exit = "EXIT_SUCCESS"
                      /\ stdout = <<[line |-> "now",
                                     val |-> <<__taskfql(new, FALSE),
                                               TRUE>>]>>

\* a task of project a.a with two tags was started while the ledger was
\* tracking another task, and the next process has read its FQL back
C32_Witness ==
    /\ Conforming(new) /\ ~TrailingDot(new)
    /\ new["project"] = <<"a", ".", "a">> /\ Len(_timewtags(new)) = 5
    /\ ReadBack /\ Len(before[1]) = 2
    /\ nowcache["fql"] = <<"a", "/", "a", "/", "b">>

\* a task of project "a." was started: none of the tags of interval 1 is
\* FQL-shaped, and _tasknow of the next process has bombed
C32_Reached ==
    /\ Conforming(new) /\ new["project"] = <<"a", ".">>
    /\ FqlEntries(new) = {}
    /\ ReadBack /\ exit = "EXIT_FAILURE"

=============================================================================
